---- MODULE Spec2Model ----
(***************************************************************************)
(* A model of the elastiql protocol adapter: the aggregation response      *)
(* transformer (src/aggregation/serialization_deserialization.rs), the     *)
(* Query one-of container and its leaf codecs (src/search/query), the      *)
(* CompoundQuery builder and the aggregation request codec.                *)
(*                                                                         *)
(* Strings whose characters matter (response keys) are sequences of        *)
(* one-character strings; Option<T> is the empty or one-element sequence.  *)
(***************************************************************************)
EXTENDS Integers, Sequences, FiniteSets, TLC

\* ------------------------------------------------------------------------
\* Bounds of the model
\* ------------------------------------------------------------------------

\* The largest number of JSON objects (aggregation nodes and buckets) below
\* the `aggregations` object of a response.
MaxNodes == 3

\* ------------------------------------------------------------------------
\* Option<T>
\* ------------------------------------------------------------------------

None == <<>>

Some(x) == <<x>>

is_some(o) == o /= <<>>

unwrap(o) == o[1]

\* Option::or_else
or_else(o, p) == IF is_some(o) THEN o ELSE p

Range(s) == {s[i] : i \in DOMAIN s}

\* ------------------------------------------------------------------------
\* Response keys: "<type>#<name>"
\* ------------------------------------------------------------------------

\* char::to_lowercase on the letters the model's keys use
to_lowercase_char(c) ==
    CASE c = "A" -> "a"
      [] c = "V" -> "v"
      [] c = "G" -> "g"
      [] c = "S" -> "s"
      [] c = "U" -> "u"
      [] c = "M" -> "m"
      [] OTHER -> c

to_lowercase(s) == [i \in DOMAIN s |-> to_lowercase_char(s[i])]

\* str::split(sep): the pieces between separators; never empty
RECURSIVE split(_, _)
split(s, sep) ==
    IF \A i \in DOMAIN s : s[i] /= sep
    THEN <<s>>
    ELSE LET i == CHOOSE k \in DOMAIN s :
                      s[k] = sep /\ \A j \in 1..(k - 1) : s[j] /= sep
         IN  <<SubSeq(s, 1, i - 1)>> \o split(SubSeq(s, i + 1, Len(s)), sep)

\* [&str]::join("")
RECURSIVE join(_)
join(parts) ==
    IF parts = <<>> THEN <<>> ELSE Head(parts) \o join(Tail(parts))

\* impl From<&str> for Ty
TyFrom(value) ==
    LET v == to_lowercase(value) IN
    CASE v = <<"a","v","g">> -> "Avg"
      [] v = <<"w","e","i","g","h","t","e","d","_","a","v","g">> -> "WeightedAvg"
      [] v = <<"c","a","r","d","i","n","a","l","i","t","y">> -> "Cardinality"
      [] v = <<"m","a","x">> -> "Max"
      [] v = <<"m","i","n">> -> "Min"
      [] v = <<"m","e","d","i","a","n","_","a","b","s","o","l","u","t","e","_",
               "d","e","v","i","a","t","i","o","n">> -> "MedianAbsoluteDeviation"
      [] v = <<"p","e","r","c","e","n","t","i","l","e","s">> -> "Percentiles"
      [] v = <<"p","e","r","c","e","n","t","i","l","e","_","r","a","n","k","s">>
             -> "PercentileRanks"
      [] v = <<"s","t","a","t","s">> -> "Stats"
      [] v = <<"e","x","t","e","n","d","e","d","_","s","t","a","t","s">>
             -> "ExtendedStats"
      [] v = <<"s","u","m">> -> "Sum"
      [] v = <<"v","a","l","u","e","_","c","o","u","n","t">> -> "ValueCount"
      [] v = <<"f","i","l","t","e","r">> -> "Filter"
      [] v = <<"f","i","l","t","e","r","s">> -> "Filters"
      [] v = <<"t","e","r","m","s">> -> "Terms"
      [] v = <<"s","t","e","r","m","s">> -> "SignificantTerms"
      [] v = <<"r","a","n","g","e">> -> "Range"
      [] v = <<"d","a","t","e","_","r","a","n","g","e">> -> "DateRange"
      [] v = <<"d","a","t","e","_","h","i","s","t","o","g","r","a","m">>
             -> "DateHistogram"
      [] v = <<"a","u","t","o","_","d","a","t","e","_","h","i","s","t","o","g",
               "r","a","m">> -> "AutoDateHistogram"
      [] v = <<"b","u","c","k","e","t","_","s","c","r","i","p","t">>
             -> "BucketScript"
      [] v = <<"b","u","c","k","e","t","_","s","e","l","e","c","t","o","r">>
             -> "BucketSelector"
      [] v = <<"b","u","c","k","e","t","_","s","o","r","t">> -> "BucketSort"
      [] v = <<"n","e","s","t","e","d">> -> "Nested"
      [] v = <<"r","e","v","e","r","s","e","_","n","e","s","t","e","d">>
             -> "ReverseNested"
      [] OTHER -> "Unknown"

\* split_ty_and_name, had it kept only the part after the tag
split_ty_and_name_second(ty_and_name) ==
    LET parts == split(ty_and_name, "#") IN
    IF Len(parts) < 2
    THEN [ty |-> "Unknown", name |-> parts[1]]
    ELSE [ty |-> TyFrom(parts[1]), name |-> parts[2]]

\* fn split_ty_and_name(ty_and_name: &str) -> (Ty, String)
split_ty_and_name(ty_and_name) ==
    LET parts == split(ty_and_name, "#") IN
    IF Len(parts) < 2
    THEN [ty |-> "Unknown", name |-> parts[1]]
    ELSE [ty |-> TyFrom(parts[1]), name |-> join(Tail(parts))]

\* ------------------------------------------------------------------------
\* Aggregation response: the JSON document
\* ------------------------------------------------------------------------

\* crate::scalars::Map with no entries
EmptyMap == [x \in {} |-> [t |-> "Null", b |-> FALSE]]

\* {"_skip": true}, {"_skip": false}, {"_skip": "true"} and {"test": true}
MetaSkipTrue == ("_skip" :> [t |-> "Bool", b |-> TRUE])

MetaSkipFalse == ("_skip" :> [t |-> "Bool", b |-> FALSE])

MetaSkipString == ("_skip" :> [t |-> "String", b |-> TRUE])

MetaOther == ("test" :> [t |-> "Bool", b |-> TRUE])

\* One scalar member of a JSON object: key k, JSON type t, and the payload in
\* the field of that type (s: string, n: number, o: object).
Member(k, t, s, n, o) == [k |-> k, t |-> t, s |-> s, n |-> n, o |-> o]

MKey(s) == Member("key", "String", s, 0, EmptyMap)

MKeyNumber == Member("key", "Int", "", 7, EmptyMap)

MKeyAsString(s) == Member("key_as_string", "String", s, 0, EmptyMap)

MValue == Member("value", "Float", "", 0, EmptyMap)

MDocCount == Member("doc_count", "Int", "", 0, EmptyMap)

MMeta(o) == Member("meta", "Object", "", 0, o)

MMetadata(o) == Member("metadata", "Object", "", 0, o)

MSumOther == Member("sum_other_doc_count", "Int", "", 0, EmptyMap)

MTook == Member("took", "Int", "", 3, EmptyMap)

\* The number a node's "value" and "doc_count" members carry: different for
\* every node, so that a number in a result names the node it came from.
ValueOf(n) == 10 * n + 1

DocOf(n) == 10 * n + 2

\* The members of node n, from a template
Members(template, n) ==
    [i \in DOMAIN template |->
        IF template[i].k = "value" /\ template[i].t = "Float"
        THEN [template[i] EXCEPT !.n = ValueOf(n)]
        ELSE IF template[i].k = "doc_count"
        THEN [template[i] EXCEPT !.n = DocOf(n)]
        ELSE template[i]]

\* Response keys used by the model
KeyAvgX == <<"a","v","g","#","X">>

KeySumX == <<"S","U","M","#","X">>

KeyW == <<"W">>

KeyFilterF == <<"f","i","l","t","e","r","#","F">>

\* Aggregation nodes: the key they sit under and their scalar members
AggProfiles ==
    { [raw |-> KeyAvgX, members |-> <<MValue>>],
      [raw |-> KeySumX, members |-> <<MDocCount, MValue>>],
      [raw |-> KeySumX, members |-> <<MMetadata(MetaSkipTrue), MValue>>],
      [raw |-> KeyW, members |-> <<MSumOther>>],
      [raw |-> KeyW, members |-> <<MMeta(MetaSkipTrue)>>],
      [raw |-> KeyFilterF, members |-> <<MDocCount, MMeta(MetaSkipTrue)>>],
      [raw |-> KeyFilterF, members |-> <<MDocCount, MMeta(MetaSkipString)>>] }

\* Buckets: their scalar members
BucketProfiles ==
    { <<MKey("k1"), MDocCount>>,
      <<MKey("k2"), MDocCount>>,
      <<MKeyNumber, MDocCount>>,
      <<MKeyNumber, MKeyAsString("k1"), MDocCount>>,
      <<MDocCount, MMeta(MetaSkipTrue), MKey("k2")>>,
      <<MKey("k1")>> }

\* A JSON object of the response: node `up` encloses it (0: the
\* `aggregations` object), either as the value of key `raw` (slot "agg") or as
\* an element of its "buckets" array (slot "bucket", in the order of the ids).
JsonNode(up, slot, raw, members) ==
    [up |-> up, slot |-> slot, raw |-> raw, members |-> members]

\* The keys in the order in which the documents list the aggregations of one
\* object; the map they are read into keeps no order
ResponseKeys == <<KeyAvgX, KeySumX, KeyW, KeyFilterF>>

KeyRank(raw) == CHOOSE i \in DOMAIN ResponseKeys : ResponseKeys[i] = raw

\* The objects that may follow the objects d as object number n: an
\* aggregation under a key that its enclosing object does not use yet, or a
\* bucket of an aggregation node. The objects are numbered level by level:
\* an object follows the objects of the enclosing objects before its own,
\* and within one enclosing object the aggregations come in the order of
\* ResponseKeys and before the buckets.
Follows(d, n, r) ==
    n = 1 \/
    LET last == d[n - 1] IN
    \/ r.up > last.up
    \/ /\ r.up = last.up
       /\ r.slot = "agg" => (last.slot = "agg" /\ KeyRank(last.raw) < KeyRank(r.raw))

NodeChoicesFrom(aggs, buckets, d, n) ==
    { r \in { JsonNode(up, "agg", p.raw, Members(p.members, n)) :
                up \in 0..(n - 1), p \in aggs }
             \cup
             { JsonNode(up, "bucket", <<>>, Members(m, n)) :
                up \in {u \in 1..(n - 1) : d[u].slot = "agg"},
                m \in buckets } :
        Follows(d, n, r) }

NodeChoices(d, n) == NodeChoicesFrom(AggProfiles, BucketProfiles, d, n)

\* No object holds two aggregations under one key
WellFormed(d) ==
    \A i, j \in DOMAIN d :
        (i /= j /\ d[i].slot = "agg" /\ d[j].slot = "agg" /\ d[i].up = d[j].up)
            => d[i].raw /= d[j].raw

\* ------------------------------------------------------------------------
\* Aggregation response: decoding (ElasticAggregationResultVisitor)
\* ------------------------------------------------------------------------

\* ElasticAggregationResult::default()
DefaultResult ==
    [parent_key |-> None, key |-> None, doc_count |-> None, value |-> None,
     buckets |-> <<>>, metadata |-> None, aggregations |-> {}]

\* One arm of the `match k.as_str()` of visit_map, for a scalar member. A
\* scalar under any other key fails to decode as a node and is dropped.
visit_member(result, m) ==
    CASE m.k = "key" ->
            IF m.t = "String" THEN [result EXCEPT !.key = Some(m.s)] ELSE result
      [] m.k = "key_as_string" -> [result EXCEPT !.key = Some(m.s)]
      [] m.k = "value" -> [result EXCEPT !.value = Some(m.n)]
      [] m.k = "doc_count" -> [result EXCEPT !.doc_count = Some(m.n)]
      [] m.k \in {"meta", "metadata"} -> [result EXCEPT !.metadata = Some(m.o)]
      [] OTHER -> result

RECURSIVE visit_members(_, _)
visit_members(result, members) ==
    IF members = <<>>
    THEN result
    ELSE visit_members(visit_member(result, Head(members)), Tail(members))

\* The ids of the elements of node n's "buckets" array, in array order
RECURSIVE BucketsFrom(_, _, _)
BucketsFrom(d, n, i) ==
    IF i > Len(d)
    THEN <<>>
    ELSE IF d[i].up = n /\ d[i].slot = "bucket"
    THEN <<i>> \o BucketsFrom(d, n, i + 1)
    ELSE BucketsFrom(d, n, i + 1)

\* The ids of the objects node n holds under keys that are not reserved
SubAggregations(d, n) == {i \in DOMAIN d : d[i].up = n /\ d[i].slot = "agg"}

\* visit_map: the node decoded from object n, before its enclosing object
\* stamps it
visit_map(d, n) ==
    [visit_members(DefaultResult, d[n].members) EXCEPT
        !.buckets = BucketsFrom(d, n, 1),
        !.aggregations = SubAggregations(d, n)]

\* The closing step of the enclosing object's visit_map: every entry of its
\* `aggregations` gets that object's key as parent_key. The entries of the
\* top-level map and the elements of a "buckets" array are not stamped.
Stamped(d, n) ==
    [visit_map(d, n) EXCEPT
        !.parent_key = IF d[n].slot = "agg" /\ d[n].up /= 0
                       THEN visit_map(d, d[n].up).key
                       ELSE None]

\* The decoded ElasticAggregationResult of every object of the document
Decoded(d) == [n \in DOMAIN d |-> Stamped(d, n)]

\* ------------------------------------------------------------------------
\* Aggregation response: the transformer (From<ElasticAggregationResponse>)
\* ------------------------------------------------------------------------

\* value_or_doc_count without the `self.buckets.is_empty()` test
value_or_doc_count_any(agg) == or_else(agg.value, agg.doc_count)

\* ElasticAggregationResult::value_or_doc_count
value_or_doc_count(agg) ==
    or_else(agg.value,
            IF agg.buckets = <<>> THEN agg.doc_count ELSE None)

\* should_skip that never skips
should_skip_never(agg) == FALSE

\* ElasticAggregationResult::should_skip
should_skip(agg) ==
    IF is_some(agg.metadata)
    THEN LET meta == unwrap(agg.metadata) IN
         IF "_skip" \in DOMAIN meta
         THEN IF meta["_skip"].t = "Bool" THEN meta["_skip"].b ELSE FALSE
         ELSE FALSE
    ELSE FALSE

\* Contribute with `insert` in place of `entry(..).or_insert_with(..)`: the
\* result of a pair is replaced, not extended
Contribute_insert(rs, parent, ty, name, agg, value) ==
    LET k == <<parent, name>>
        key == or_else(agg.parent_key, agg.key)
        fresh == [parent |-> parent, name |-> name, type_ |-> ty,
                  fields |-> IF is_some(key) THEN <<unwrap(key)>> ELSE <<>>,
                  values |-> <<value>>,
                  metadata |-> agg.metadata]
    IN  [x \in DOMAIN rs \cup {k} |-> IF x = k THEN fresh ELSE rs[x]]

\* Contribute, had every contribution set the type and the metadata anew
Contribute_retype(rs, parent, ty, name, agg, value) ==
    LET k == <<parent, name>>
        entry == IF k \in DOMAIN rs
                 THEN [rs[k] EXCEPT !.type_ = ty, !.metadata = agg.metadata]
                 ELSE [parent |-> parent, name |-> name, type_ |-> ty,
                       fields |-> <<>>, values |-> <<>>,
                       metadata |-> agg.metadata]
        key == or_else(agg.parent_key, agg.key)
        pushed == [entry EXCEPT
                     !.fields = IF is_some(key) THEN Append(@, unwrap(key)) ELSE @,
                     !.values = Append(@, value)]
    IN  [x \in DOMAIN rs \cup {k} |-> IF x = k THEN pushed ELSE rs[x]]

\* results.entry((parent, name)).or_insert_with(..), then the two pushes
Contribute(rs, parent, ty, name, agg, value) ==
    LET k == <<parent, name>>
        entry == IF k \in DOMAIN rs
                 THEN rs[k]
                 ELSE [parent |-> parent, name |-> name, type_ |-> ty,
                       fields |-> <<>>, values |-> <<>>,
                       metadata |-> agg.metadata]
        key == or_else(agg.parent_key, agg.key)
        pushed == [entry EXCEPT
                     !.fields = IF is_some(key) THEN Append(@, unwrap(key)) ELSE @,
                     !.values = Append(@, value)]
    IN  [x \in DOMAIN rs \cup {k} |-> IF x = k THEN pushed ELSE rs[x]]

\* The closure handle_leaf_agg
handle_leaf_agg(rs, parent, ty, name, agg) ==
    LET value == value_or_doc_count(agg) IN
    IF is_some(value) /\ ~should_skip(agg)
    THEN Contribute(rs, parent, ty, name, agg, unwrap(value))
    ELSE rs

\* The push for one bucket, had it named no parent
BucketEntry_rerooted(curr_agg, bucket) == [parent |-> None, aggs |-> bucket]

\* What the loop over curr_agg.buckets pushes for one bucket
BucketEntry(curr_agg, bucket) == [parent |-> curr_agg.parent_key, aggs |-> bucket]

\* The loop over the buckets, had it handled a bucket with sub-aggregations
\* as a leaf before pushing them
RECURSIVE for_buckets_all(_, _, _, _, _, _, _)
for_buckets_all(t, rs, pending, parent, tn, curr_agg, buckets) ==
    IF buckets = <<>>
    THEN [results |-> rs, pending_aggs |-> pending]
    ELSE LET b == Head(buckets)
             handled == handle_leaf_agg(rs, parent, tn.ty, tn.name, t[b])
         IN  IF t[b].aggregations = {}
             THEN for_buckets_all(t, handled, pending, parent, tn, curr_agg,
                                  Tail(buckets))
             ELSE for_buckets_all(t, handled, Append(pending, BucketEntry(curr_agg, b)),
                                  parent, tn, curr_agg, Tail(buckets))

\* `for bucket_agg in curr_agg.buckets.iter()`: the state is the results and
\* the work list
RECURSIVE for_buckets(_, _, _, _, _, _, _)
for_buckets(t, rs, pending, parent, tn, curr_agg, buckets) ==
    IF buckets = <<>>
    THEN [results |-> rs, pending_aggs |-> pending]
    ELSE LET b == Head(buckets) IN
         IF t[b].aggregations = {}
         THEN for_buckets(t, handle_leaf_agg(rs, parent, tn.ty, tn.name, t[b]),
                          pending, parent, tn, curr_agg, Tail(buckets))
         ELSE for_buckets(t, rs, Append(pending, BucketEntry(curr_agg, b)),
                          parent, tn, curr_agg, Tail(buckets))

\* What the body of `for (ty_and_name, curr_agg) in aggs.iter()` pushes for
\* curr_agg.aggregations
SubEntry(n) == [parent |-> None, aggs |-> n]

\* The body of the loop, had it pushed curr_agg.aggregations under
\* curr_agg.parent_key as it does for the aggregations of a bucket
for_entry_stamped(d, t, rs, pending, parent, n) ==
    LET tn == split_ty_and_name(d[n].raw)
        curr_agg == t[n]
    IN  for_buckets(t, handle_leaf_agg(rs, parent, tn.ty, tn.name, curr_agg),
                    Append(pending, [parent |-> curr_agg.parent_key, aggs |-> n]),
                    parent, tn, curr_agg, curr_agg.buckets)

\* The body of `for (ty_and_name, curr_agg) in aggs.iter()` for entry n
for_entry(d, t, rs, pending, parent, n) ==
    LET tn == split_ty_and_name(d[n].raw)
        curr_agg == t[n]
    IN  for_buckets(t, handle_leaf_agg(rs, parent, tn.ty, tn.name, curr_agg),
                    Append(pending, SubEntry(n)), parent, tn, curr_agg,
                    curr_agg.buckets)

\* The orders in which `results.into_iter()` may yield a set of results
RECURSIVE Orders(_)
Orders(S) ==
    IF S = {}
    THEN {<<>>}
    ELSE UNION { { <<x>> \o o : o \in Orders(S \ {x}) } : x \in S }

\* ------------------------------------------------------------------------
\* JSON, as serde_json writes and reads it
\* ------------------------------------------------------------------------

\* A JSON value is a tuple that starts with its kind. An object keeps its
\* entries in the order they were written, as a sequence of <<key, value>>.
Null == <<"null">>

JBool(b) == <<"bool", b>>

JNum(n) == <<"num", n>>

JStr(s) == <<"str", s>>

JArr(elems) == <<"arr", elems>>

JObj(entries) == <<"obj", entries>>

\* Result<T, serde_json::Error>
Ok(v) == <<"ok", v>>

Err == <<"err">>

is_ok(r) == r[1] = "ok"

\* An f64 or f32: a finite number, or one of NaN and the infinities
Finite(n) == [finite |-> TRUE, n |-> n]

NonFinite == [finite |-> FALSE, n |-> 0]

\* serde_json's serialize_f64 / serialize_f32: a non-finite number is
\* written as null
ser_float(x) == IF x.finite THEN JNum(x.n) ELSE Null

\* serde_json's deserialize_f64: a number, nothing else
de_float(j) == IF j[1] = "num" THEN Ok(Finite(j[2])) ELSE Err

\* The types of the fields, as tuples that start with the type's name
TString == <<"String">>

TBool == <<"bool">>

TI32 == <<"i32">>

TFloat == <<"f64">>

TOption(t) == <<"Option", t>>

TVec(t) == <<"Vec", t>>

TStruct(name) == <<"Struct", name>>

TCustom(name) == <<"Custom", name>>

\* One field of a struct that derives Serialize and Deserialize: its name,
\* its JSON key (`rename`), its type, its default when the key is absent (an
\* Option with the value, or None: the key is required) and the test of
\* `skip_serializing_if` ("": always written).
Field(name, key, ty, default, skip_if) ==
    [name |-> name, key |-> key, ty |-> ty, default |-> default, skip_if |-> skip_if]

\* `#[serde(default, skip_serializing_if = "Option::is_none")] x: Option<T>`
OptionField(name, key, t) == Field(name, key, TOption(t), Some(None), "Option::is_none")

\* `#[serde(default, skip_serializing_if = "Vec::is_empty")] x: Vec<T>`
VecField(name, t) == Field(name, name, TVec(t), Some(<<>>), "Vec::is_empty")

\* A field with `#[serde(default = "..")]` or `#[serde(default)]` that is
\* always written
DefaultField(name, t, default) == Field(name, name, t, Some(default), "")

\* A field without attributes: required, unless it is an Option
PlainField(name, t) == Field(name, name, t, None, "")

\* ------------------------------------------------------------------------
\* Search queries: the structs that derive their codec
\* ------------------------------------------------------------------------

\* QueryStringBooleanOperator::default()
DefaultOperator == "Or"

default_true == TRUE

default_zero_i32 == 0

default_fifty_i32 == 50

default_one_f32 == Finite(1)

default_ten_thousand_i32 == 10000

ExistsQuerySchema == << PlainField("field", TString) >>

InnerTermQuerySchema ==
    << PlainField("value", TString),
       OptionField("boost", "boost", TFloat) >>

InnerPrefixQuerySchema ==
    << PlainField("value", TString),
       DefaultField("case_insensitive", TBool, FALSE) >>

InnerRangeQuerySchema ==
    << OptionField("greater_than", "gt", TString),
       OptionField("greater_than_or_equal_to", "gte", TString),
       OptionField("less_than", "lt", TString),
       OptionField("less_than_or_equal_to", "lte", TString),
       OptionField("time_zone", "time_zone", TString),
       OptionField("boost", "boost", TFloat) >>

SimpleQueryStringQuerySchema ==
    << VecField("fields", TString),
       PlainField("query", TString) >>

QueryStringQuerySchema ==
    << PlainField("query", TString),
       VecField("fields", TString),
       OptionField("default_field", "default_field", TString),
       DefaultField("allow_leading_wildcard", TBool, default_true),
       DefaultField("analyze_wildcard", TBool, FALSE),
       OptionField("analyzer", "analyzer", TString),
       OptionField("quote_analyzer", "quote_analyzer", TString),
       DefaultField("auto_generate_synonyms_phrase_query", TBool, default_true),
       DefaultField("boost", TFloat, default_one_f32),
       DefaultField("default_operator", TCustom("QueryStringBooleanOperator"),
                    DefaultOperator),
       DefaultField("enable_position_increments", TBool, default_true),
       OptionField("fuzziness", "fuzziness", TString),
       DefaultField("fuzzy_max_expansions", TI32, default_fifty_i32),
       DefaultField("fuzzy_prefix_length", TI32, default_zero_i32),
       DefaultField("fuzzy_transpositions", TBool, default_true),
       DefaultField("lenient", TBool, FALSE),
       DefaultField("max_determinized_states", TI32, default_ten_thousand_i32),
       OptionField("minimum_should_match", "minimum_should_match", TString),
       DefaultField("phrase_slop", TI32, default_zero_i32),
       OptionField("quote_field_suffix", "quote_field_suffix", TString),
       OptionField("rewrite", "rewrite", TString),
       OptionField("time_zone", "time_zone", TString) >>

NestedQuerySchema ==
    << PlainField("path", TString),
       PlainField("query", TStruct("CompoundQuery")),
       PlainField("ignore_unmapped", TBool) >>

CompoundQuerySchema ==
    << OptionField("boolean", "bool", TStruct("BooleanQuery")) >>

BooleanQuerySchema ==
    << VecField("must", TStruct("Query")),
       VecField("filter", TStruct("Query")),
       VecField("should", TStruct("Query")),
       VecField("must_not", TStruct("Query")),
       OptionField("minimum_should_match", "minimum_should_match", TString),
       OptionField("boost", "boost", TFloat) >>

QuerySchema ==
    << OptionField("exists", "exists", TStruct("ExistsQuery")),
       OptionField("term", "term", TCustom("TermQuery")),
       OptionField("terms", "terms", TCustom("TermsQuery")),
       OptionField("range", "range", TCustom("RangeQuery")),
       OptionField("regexp", "regexp", TCustom("RegexpQuery")),
       OptionField("match_", "match", TCustom("MatchQuery")),
       OptionField("simple_query_string", "simple_query_string",
                   TStruct("SimpleQueryStringQuery")),
       OptionField("query_string", "query_string", TStruct("QueryStringQuery")),
       OptionField("nested", "nested", TStruct("NestedQuery")),
       OptionField("boolean", "bool", TStruct("BooleanQuery")) >>

\* ------------------------------------------------------------------------
\* Aggregation requests: the structs that derive their codec
\* ------------------------------------------------------------------------

ScriptSchema ==
    << PlainField("source", TString),
       OptionField("params", "params", TCustom("Map")) >>

InnerAggregationSchema ==
    << PlainField("field", TOption(TString)),
       OptionField("script", "script", TStruct("Script")),
       OptionField("missing", "missing", TFloat) >>

\* A field of SubAggregation that holds an aggregation of type t
KindField(name, t) == OptionField(name, name, TStruct(t))

\* The requests of the model define avg, sum and filter; the codecs of the
\* types of the other kinds are not modelled
SubAggregationSchema ==
    << KindField("avg", "InnerAggregation"),
       KindField("weighted_avg", "WeightedAverageAggregation"),
       KindField("cardinality", "InnerAggregation"),
       KindField("max", "InnerAggregation"),
       KindField("min", "InnerAggregation"),
       KindField("median_absolute_deviation", "InnerAggregation"),
       KindField("percentiles", "InnerAggregation"),
       KindField("percentile_ranks", "InnerAggregation"),
       KindField("stats", "InnerAggregation"),
       KindField("extended_stats", "InnerAggregation"),
       KindField("sum", "InnerAggregation"),
       KindField("value_count", "InnerAggregation"),
       OptionField("filters", "filter", TStruct("CompoundQuery")),
       KindField("terms", "TermsAggregation"),
       KindField("range", "RangeAggregation"),
       KindField("date_range", "DateRangeAggregation"),
       KindField("date_histogram", "DateHistogramAggregation"),
       KindField("auto_date_histogram", "AutoDateHistogramAggregation"),
       KindField("histogram", "HistogramAggregation"),
       KindField("variable_width_histogram", "VariableWidthHistogram"),
       KindField("bucket_script", "BucketScript"),
       KindField("bucket_selector", "BucketSelector"),
       KindField("bucket_sort", "BucketSort"),
       KindField("nested", "NestedAggregation"),
       KindField("reverse_nested", "ReverseNestedAggregation"),
       OptionField("metadata", "meta", TCustom("Map")),
       Field("aggregations", "aggs", TCustom("serde_sub_aggregations"),
             Some(None), "Option::is_none") >>

\* struct InnerSortValue: three options, none written when None
InnerSortValueSchema ==
    << Field("order", "order", TOption(TCustom("SortOrder")), None, "Option::is_none"),
       Field("mode", "mode", TOption(TCustom("SortMode")), None, "Option::is_none"),
       Field("unmapped_type", "unmapped_type", TOption(TString), None,
             "Option::is_none") >>

Schema(name) ==
    CASE name = "ExistsQuery" -> ExistsQuerySchema
      [] name = "InnerSortValue" -> InnerSortValueSchema
      [] name = "InnerTermQuery" -> InnerTermQuerySchema
      [] name = "InnerRangeQuery" -> InnerRangeQuerySchema
      [] name = "InnerPrefixQuery" -> InnerPrefixQuerySchema
      [] name = "SimpleQueryStringQuery" -> SimpleQueryStringQuerySchema
      [] name = "QueryStringQuery" -> QueryStringQuerySchema
      [] name = "NestedQuery" -> NestedQuerySchema
      [] name = "CompoundQuery" -> CompoundQuerySchema
      [] name = "BooleanQuery" -> BooleanQuerySchema
      [] name = "Query" -> QuerySchema
      [] name = "Script" -> ScriptSchema
      [] name = "InnerAggregation" -> InnerAggregationSchema
      [] name = "SubAggregation" -> SubAggregationSchema

\* The names and the JSON keys of a schema
FieldNames(schema) == {schema[i].name : i \in DOMAIN schema}

FieldKeys(schema) == {schema[i].key : i \in DOMAIN schema}

\* ------------------------------------------------------------------------
\* Search queries: serialization
\* ------------------------------------------------------------------------

\* The test of `skip_serializing_if` on the value x of field f
skipped(f, x) ==
    CASE f.skip_if = "Option::is_none" -> x = None
      [] f.skip_if = "Vec::is_empty" -> x = <<>>
      [] OTHER -> FALSE

\* The orders in which a HashMap<&str, &str> of two entries yields them
HashOrders == {"insertion", "reverse"}

\* Serialize for a HashMap<&str, &str>: its entries, in the map's order h
ser_str_map(entries, h) ==
    JObj([i \in DOMAIN entries |->
            LET e == IF h = "insertion" THEN entries[i]
                     ELSE entries[Len(entries) + 1 - i]
            IN  <<e[1], JStr(e[2])>>])

\* TermQuery, TermsQuery, RangeQuery, RegexpQuery and MatchQuery are written
\* by hand: a map whose one key is the field
InnerOfTerm(v) == [value |-> v.value, boost |-> v.boost]

InnerOfPrefix(v) == [value |-> v.value, case_insensitive |-> v.case_insensitive]

InnerOfRange(v) ==
    [greater_than |-> v.greater_than,
     greater_than_or_equal_to |-> v.greater_than_or_equal_to,
     less_than |-> v.less_than,
     less_than_or_equal_to |-> v.less_than_or_equal_to,
     time_zone |-> v.time_zone,
     boost |-> v.boost]

\* impl From<Aggregation> for SubAggregation: every field but the name
SubAggregation_from(aggregation) ==
    [f \in DOMAIN aggregation \ {"name"} |-> aggregation[f]]

\* The keys of a crate::scalars::Map, in the order the map yields them
RECURSIVE KeysInOrder(_)
KeysInOrder(S) ==
    IF S = {}
    THEN <<>>
    ELSE LET k == CHOOSE x \in S : TRUE IN <<k>> \o KeysInOrder(S \ {k})

\* Serialize for crate::scalars::Map, a HashMap<String, serde_json::Value>
ser_map(m) ==
    LET keys == KeysInOrder(DOMAIN m) IN
    JObj([i \in DOMAIN keys |-> <<keys[i], m[keys[i]]>>])

\* str::starts_with(char), on a string held as its characters
starts_with(s, c) == Len(s) > 0 /\ s[1] = c

\* The key Serialize for Sort writes a field under
sort_key(field) ==
    CASE field = <<"s","c","o","r","e">> -> <<"_","s","c","o","r","e">>
      [] field = <<"k","e","y">> -> <<"_","k","e","y">>
      [] field = <<"c","o","u","n","t">> -> <<"_","c","o","u","n","t">>
      [] OTHER -> field

\* From<&Sort> for InnerSortValue, had it looked at the key the field is
\* written under
InnerSortValue_from_key(sort) ==
    [order |-> sort.order,
     mode |-> sort.mode,
     unmapped_type |-> IF starts_with(sort_key(sort.field), "_")
                       THEN None
                       ELSE Some("keyword")]

\* impl From<&Sort> for InnerSortValue
InnerSortValue_from(sort) ==
    [order |-> sort.order,
     mode |-> sort.mode,
     unmapped_type |-> IF starts_with(sort.field, "_") THEN None ELSE Some("keyword")]

\* #[serde(rename_all = "snake_case")] on SortOrder and SortMode
snake_case(variant) ==
    CASE variant = "Asc" -> "asc"
      [] variant = "Desc" -> "desc"
      [] variant = "Min" -> "min"
      [] variant = "Max" -> "max"
      [] variant = "Sum" -> "sum"
      [] variant = "Avg" -> "avg"
      [] variant = "Median" -> "median"

SortOrders == {"Asc", "Desc"}

SortModes == {"Min", "Max", "Sum", "Avg", "Median"}

\* Deserialize for a unit-variant enum: the variant whose name is the string
de_variant(variants, j) ==
    IF \E v \in variants : j = JStr(snake_case(v))
    THEN Ok(CHOOSE v \in variants : j = JStr(snake_case(v)))
    ELSE Err

\* SortVisitor::visit_map, had it left the mode behind
Sort_visit_map_no_mode(field, inner) ==
    [field |-> field, order |-> inner.order, mode |-> None]

\* SortVisitor::visit_map, once the key and the InnerSortValue are read
Sort_visit_map(field, inner) ==
    [field |-> field, order |-> inner.order, mode |-> inner.mode]

\* Serialize for TermsQuery, had it written the boost in an object under the
\* field, as TermQuery does
serialize_TermsQuery_inner(v) ==
    JObj(<< <<v.field,
              JObj(<< <<"value", JArr([i \in DOMAIN v.values |-> JStr(v.values[i])])>> >>
                   \o IF is_some(v.boost)
                      THEN << <<"boost", ser_float(unwrap(v.boost))>> >>
                      ELSE <<>>)>> >>)

\* Serialize for TermsQuery: the values under the field, the boost beside it
serialize_TermsQuery(v) ==
    JObj(<< <<v.field, JArr([i \in DOMAIN v.values |-> JStr(v.values[i])])>> >>
         \o IF is_some(v.boost)
            THEN << <<"boost", ser_float(unwrap(v.boost))>> >>
            ELSE <<>>)

RECURSIVE serialize(_, _, _)
serialize(ty, v, h) ==
    CASE ty[1] = "String" -> JStr(v)
      [] ty[1] = "bool" -> JBool(v)
      [] ty[1] = "i32" -> JNum(v)
      [] ty[1] = "f64" -> ser_float(v)
      [] ty[1] = "Option" ->
            IF is_some(v) THEN serialize(ty[2], unwrap(v), h) ELSE Null
      [] ty[1] = "Vec" -> JArr([i \in DOMAIN v |-> serialize(ty[2], v[i], h)])
      [] ty[1] = "Struct" ->
            LET schema == Schema(ty[2])
                kept == SelectSeq([i \in DOMAIN schema |-> i],
                                  LAMBDA i : ~skipped(schema[i], v[schema[i].name]))
            IN  JObj([k \in DOMAIN kept |->
                        <<schema[kept[k]].key,
                          serialize(schema[kept[k]].ty, v[schema[kept[k]].name], h)>>])
      [] ty[1] = "Custom" ->
            CASE ty[2] = "TermQuery" ->
                    JObj(<< <<v.field,
                              serialize(TStruct("InnerTermQuery"), InnerOfTerm(v), h)>> >>)
              [] ty[2] = "RangeQuery" ->
                    JObj(<< <<v.field,
                              serialize(TStruct("InnerRangeQuery"), InnerOfRange(v), h)>> >>)
              [] ty[2] = "TermsQuery" -> serialize_TermsQuery(v)
              [] ty[2] = "RegexpQuery" ->
                    JObj(<< <<v.field,
                              ser_str_map(<< <<"value", v.value>> >>
                                          \o IF is_some(v.flags)
                                             THEN << <<"flags", unwrap(v.flags)>> >>
                                             ELSE <<>>, h)>> >>)
              [] ty[2] = "MatchQuery" ->
                    JObj(<< <<v.field, ser_str_map(<< <<"query", v.query>> >>, h)>> >>)
              [] ty[2] = "PrefixQuery" ->
                    JObj(<< <<v.field,
                              serialize(TStruct("InnerPrefixQuery"), InnerOfPrefix(v), h)>> >>)
              [] ty[2] = "QueryStringBooleanOperator" ->
                    IF v = "Or" THEN JStr("OR") ELSE JStr("AND")
              [] ty[2] \in {"SortOrder", "SortMode"} -> JStr(snake_case(v))
              [] ty[2] = "Sort" ->
                    JObj(<< <<sort_key(v.field),
                              serialize(TStruct("InnerSortValue"),
                                        InnerSortValue_from(v), h)>> >>)
              [] ty[2] = "Map" -> ser_map(v)
              [] ty[2] = "Aggregation" ->
                    JObj(<< <<v.name,
                              serialize(TStruct("SubAggregation"),
                                        SubAggregation_from(v), h)>> >>)
              [] ty[2] = "serde_sub_aggregations" ->
                    IF is_some(v)
                    THEN LET aggs == unwrap(v) IN
                         JObj([i \in DOMAIN aggs |->
                                 <<aggs[i].name,
                                   serialize(TStruct("SubAggregation"),
                                             SubAggregation_from(aggs[i]), h)>>])
                    ELSE Null

\* serde_json::to_value: an object of a Value holds one entry per key, and a
\* key written twice keeps the value written last
RECURSIVE to_value(_)
to_value(j) ==
    CASE j[1] = "arr" -> JArr([i \in DOMAIN j[2] |-> to_value(j[2][i])])
      [] j[1] = "obj" ->
            LET entries == j[2]
                last(i) == \A k \in DOMAIN entries : entries[k][1] = entries[i][1] => k <= i
                kept == SelectSeq([i \in DOMAIN entries |-> i], last)
            IN  JObj([k \in DOMAIN kept |->
                        <<entries[kept[k]][1], to_value(entries[kept[k]][2])>>])
      [] OTHER -> j

\* ------------------------------------------------------------------------
\* Search queries: deserialization
\* ------------------------------------------------------------------------

\* Deserialize for Vec<String>
de_string_vec(j) ==
    IF j[1] = "arr" /\ \A i \in DOMAIN j[2] : j[2][i][1] = "str"
    THEN Ok([i \in DOMAIN j[2] |-> j[2][i][2]])
    ELSE Err

\* Deserialize for HashMap<String, String>: the entries, or an error
de_string_map(j) ==
    IF j[1] = "obj" /\ \A i \in DOMAIN j[2] : j[2][i][2][1] = "str"
    THEN Ok([i \in DOMAIN j[2] |-> <<j[2][i][1], j[2][i][2][2]>>])
    ELSE Err

\* HashMap::get on the entries read: the value read last under key k
map_get(entries, k) ==
    LET hits == {i \in DOMAIN entries : entries[i][1] = k} IN
    IF hits = {}
    THEN None
    ELSE Some(entries[CHOOSE i \in hits : \A x \in hits : x <= i][2])

\* TermsQueryVisitor::visit_map: the loop over the keys left to read
RECURSIVE terms_visit_map(_, _, _, _)
terms_visit_map(access, field, values, boost) ==
    IF access = <<>>
    THEN IF is_some(field) /\ is_some(values)
         THEN Ok([field |-> unwrap(field), values |-> unwrap(values), boost |-> boost])
         ELSE Err
    ELSE LET key == Head(access)[1]
             value == Head(access)[2]
         IN  IF key = "boost"
             THEN IF is_some(boost) \/ ~is_ok(de_float(value))
                  THEN Err
                  ELSE terms_visit_map(Tail(access), field, values,
                                       Some(de_float(value)[2]))
             ELSE IF is_some(field) \/ ~is_ok(de_string_vec(value))
                  THEN Err
                  ELSE terms_visit_map(Tail(access), Some(key),
                                       Some(de_string_vec(value)[2]), boost)

\* The visitors of TermQuery, RangeQuery, RegexpQuery and MatchQuery read
\* one key and its value; serde_json fails when the map has entries left
\* Aggregation::from_sub_aggregation: the fields of the sub aggregation
\* under the given name
Aggregation_from_sub_aggregation(name, aggregation) ==
    [f \in DOMAIN aggregation \cup {"name"} |->
        IF f = "name" THEN name ELSE aggregation[f]]

\* The keys of a JSON object in the order of their first occurrence
RECURSIVE first_keys(_)
first_keys(entries) ==
    IF entries = <<>>
    THEN <<>>
    ELSE LET front == first_keys(SubSeq(entries, 1, Len(entries) - 1))
             k == entries[Len(entries)][1]
         IN  IF k \in Range(front) THEN front ELSE Append(front, k)

\* HashMap::insert while reading a JSON object: a later entry replaces an
\* earlier one of the same key
last_of(entries, k) ==
    entries[CHOOSE i \in DOMAIN entries :
               /\ entries[i][1] = k
               /\ \A l \in DOMAIN entries : entries[l][1] = k => l <= i][2]

\* Deserialize for crate::scalars::Map
de_map(j) ==
    IF j[1] /= "obj"
    THEN Err
    ELSE Ok([k \in Range(first_keys(j[2])) |-> last_of(j[2], k)])

RECURSIVE deserialize(_, _)
deserialize(ty, j) ==
    CASE ty[1] = "String" -> IF j[1] = "str" THEN Ok(j[2]) ELSE Err
      [] ty[1] = "bool" -> IF j[1] = "bool" THEN Ok(j[2]) ELSE Err
      [] ty[1] = "i32" -> IF j[1] = "num" THEN Ok(j[2]) ELSE Err
      [] ty[1] = "f64" -> de_float(j)
      [] ty[1] = "Option" ->
            IF j[1] = "null"
            THEN Ok(None)
            ELSE LET r == deserialize(ty[2], j) IN
                 IF is_ok(r) THEN Ok(Some(r[2])) ELSE Err
      [] ty[1] = "Vec" ->
            IF j[1] /= "arr"
            THEN Err
            ELSE LET rs == [i \in DOMAIN j[2] |-> deserialize(ty[2], j[2][i])] IN
                 IF \E i \in DOMAIN rs : ~is_ok(rs[i])
                 THEN Err
                 ELSE Ok([i \in DOMAIN rs |-> rs[i][2]])
      [] ty[1] = "Struct" ->
            IF j[1] /= "obj"
            THEN Err
            ELSE LET schema == Schema(ty[2])
                     entries == j[2]
                     hits(f) == {i \in DOMAIN entries : entries[i][1] = f.key}
                     read(f) ==
                        IF hits(f) = {}
                        THEN IF is_some(f.default)
                             THEN Ok(unwrap(f.default))
                             ELSE IF f.ty[1] = "Option" THEN Ok(None) ELSE Err
                        ELSE IF Cardinality(hits(f)) > 1
                        THEN Err
                        ELSE deserialize(f.ty, entries[CHOOSE i \in hits(f) : TRUE][2])
                     rs == [i \in DOMAIN schema |-> read(schema[i])]
                 IN  IF \E i \in DOMAIN rs : ~is_ok(rs[i])
                     THEN Err
                     ELSE Ok([n \in FieldNames(schema) |->
                                rs[CHOOSE i \in DOMAIN schema : schema[i].name = n][2]])
      [] ty[1] = "Custom" ->
            IF ty[2] = "QueryStringBooleanOperator"
            THEN IF j = JStr("OR") THEN Ok("Or")
                 ELSE IF j = JStr("AND") THEN Ok("And") ELSE Err
            ELSE IF ty[2] = "SortOrder"
            THEN de_variant(SortOrders, j)
            ELSE IF ty[2] = "SortMode"
            THEN de_variant(SortModes, j)
            ELSE IF ty[2] = "serde_sub_aggregations" /\ j[1] = "null"
            THEN Ok(None)
            ELSE IF j[1] /= "obj"
            THEN Err
            ELSE IF ty[2] = "Map"
            THEN de_map(j)
            ELSE IF ty[2] = "serde_sub_aggregations"
            THEN LET rs == [i \in DOMAIN j[2] |->
                              deserialize(TStruct("SubAggregation"), j[2][i][2])]
                     names == first_keys(j[2])
                     sub(k) == rs[CHOOSE i \in DOMAIN j[2] :
                                    /\ j[2][i][1] = k
                                    /\ \A l \in DOMAIN j[2] :
                                          j[2][l][1] = k => l <= i][2]
                 IN  IF \E i \in DOMAIN rs : ~is_ok(rs[i])
                     THEN Err
                     ELSE Ok(Some([i \in DOMAIN names |->
                            Aggregation_from_sub_aggregation(names[i],
                                                             sub(names[i]))]))
            ELSE IF ty[2] = "TermsQuery"
            THEN terms_visit_map(j[2], None, None, None)
            ELSE IF Len(j[2]) /= 1
            THEN Err
            ELSE LET field == j[2][1][1]
                     value == j[2][1][2]
                 IN  CASE ty[2] = "TermQuery" ->
                            LET inner == deserialize(TStruct("InnerTermQuery"), value) IN
                            IF is_ok(inner)
                            THEN Ok([field |-> field, value |-> inner[2].value,
                                     boost |-> inner[2].boost])
                            ELSE Err
                       [] ty[2] = "RangeQuery" ->
                            LET inner == deserialize(TStruct("InnerRangeQuery"), value) IN
                            IF is_ok(inner)
                            THEN Ok([f \in {"field"} \cup DOMAIN inner[2] |->
                                        IF f = "field" THEN field ELSE inner[2][f]])
                            ELSE Err
                       [] ty[2] = "Sort" ->
                            LET inner == deserialize(TStruct("InnerSortValue"), value) IN
                            IF is_ok(inner)
                            THEN Ok(Sort_visit_map(field, inner[2]))
                            ELSE Err
                       [] ty[2] = "PrefixQuery" ->
                            LET inner == deserialize(TStruct("InnerPrefixQuery"), value) IN
                            IF is_ok(inner)
                            THEN Ok([field |-> field, value |-> inner[2].value,
                                     case_insensitive |-> inner[2].case_insensitive])
                            ELSE Err
                       [] ty[2] = "RegexpQuery" ->
                            LET values == de_string_map(value) IN
                            IF is_ok(values) /\ is_some(map_get(values[2], "value"))
                            THEN Ok([field |-> field,
                                     value |-> unwrap(map_get(values[2], "value")),
                                     flags |-> map_get(values[2], "flags")])
                            ELSE Err
                       [] ty[2] = "Aggregation" ->
                            LET agg == deserialize(TStruct("SubAggregation"), value) IN
                            IF is_ok(agg)
                            THEN Ok(Aggregation_from_sub_aggregation(field, agg[2]))
                            ELSE Err
                       [] ty[2] = "MatchQuery" ->
                            LET values == de_string_map(value) IN
                            IF is_ok(values) /\ is_some(map_get(values[2], "query"))
                            THEN Ok([field |-> field,
                                     query |-> unwrap(map_get(values[2], "query"))])
                            ELSE Err

\* ------------------------------------------------------------------------
\* Search queries: the values
\* ------------------------------------------------------------------------

\* At most this many clauses in the four lists of a BooleanQuery
MaxClauses == 2

\* Field names: an ordinary one, and the one TermsQuery keeps for its boost
FieldNamesUsed == {"f", "boost"}

OptString == {None, Some("s")}

OptFloat == {None, Some(Finite(2)), Some(NonFinite)}

ExistsQueries == {[field |-> f] : f \in FieldNamesUsed}

TermQueries ==
    {[field |-> f, value |-> "v", boost |-> b] : f \in FieldNamesUsed, b \in OptFloat}

TermsQueries ==
    {[field |-> f, values |-> vs, boost |-> b] :
        f \in FieldNamesUsed, vs \in {<<>>, <<"v", "w">>}, b \in OptFloat}

RangeQueries ==
    {[field |-> f, greater_than |-> gt, greater_than_or_equal_to |-> gte,
      less_than |-> lt, less_than_or_equal_to |-> lte, time_zone |-> tz,
      boost |-> b] :
        f \in FieldNamesUsed, gt \in OptString, gte \in OptString, lt \in OptString,
        lte \in OptString, tz \in OptString, b \in OptFloat}

RegexpQueries ==
    {[field |-> f, value |-> "v", flags |-> fl] : f \in FieldNamesUsed, fl \in OptString}

MatchQueries == {[field |-> f, query |-> "v"] : f \in FieldNamesUsed}

PrefixQueries ==
    {[field |-> f, value |-> "v", case_insensitive |-> c] :
        f \in FieldNamesUsed, c \in BOOLEAN}

SimpleQueryStringQueries ==
    {[fields |-> fs, query |-> "v"] : fs \in {<<>>, <<"f">>}}

\* A QueryStringQuery with the documented defaults
QueryStringOf(query) ==
    [query |-> query, fields |-> <<>>, default_field |-> None,
     allow_leading_wildcard |-> default_true, analyze_wildcard |-> FALSE,
     analyzer |-> None, quote_analyzer |-> None,
     auto_generate_synonyms_phrase_query |-> default_true,
     boost |-> default_one_f32, default_operator |-> DefaultOperator,
     enable_position_increments |-> default_true, fuzziness |-> None,
     fuzzy_max_expansions |-> default_fifty_i32,
     fuzzy_prefix_length |-> default_zero_i32,
     fuzzy_transpositions |-> default_true, lenient |-> FALSE,
     max_determinized_states |-> default_ten_thousand_i32,
     minimum_should_match |-> None, phrase_slop |-> default_zero_i32,
     quote_field_suffix |-> None, rewrite |-> None, time_zone |-> None]

QueryStringQueries ==
    {[QueryStringOf("v") EXCEPT
        !.fields = fs, !.default_field = df, !.allow_leading_wildcard = alw,
        !.boost = b, !.default_operator = op, !.lenient = alw,
        !.fuzzy_max_expansions = fme, !.analyzer = df, !.time_zone = tz] :
        fs \in {<<>>, <<"f">>}, df \in OptString, alw \in BOOLEAN,
        b \in {Finite(1), Finite(2), NonFinite}, op \in {"Or", "And"},
        fme \in {50, 7}, tz \in OptString}

\* A Query with no field defined
NoQuery ==
    [exists |-> None, term |-> None, terms |-> None, range |-> None,
     regexp |-> None, match_ |-> None, simple_query_string |-> None,
     query_string |-> None, nested |-> None, boolean |-> None]

\* A Query with the one field `slot` defined
QueryOf(slot, v) == [NoQuery EXCEPT ![slot] = Some(v)]

\* BooleanQuery::default()
DefaultBooleanQuery ==
    [must |-> <<>>, filter |-> <<>>, should |-> <<>>, must_not |-> <<>>,
     minimum_should_match |-> None, boost |-> None]

\* The queries used as clauses: two leaves, one of them a terms query on a
\* field named "boost", and a bool query that holds a clause itself
ClauseQueries ==
    { QueryOf("exists", [field |-> "f"]),
      QueryOf("terms", [field |-> "boost", values |-> <<"v">>, boost |-> None]),
      QueryOf("boolean",
              [DefaultBooleanQuery EXCEPT
                  !.must = <<QueryOf("term", [field |-> "f", value |-> "v",
                                             boost |-> Some(Finite(2))])>>]) }

ClauseLists(max) == UNION { [1..n -> ClauseQueries] : n \in 0..max }

\* The clauses of a BooleanQuery: its four lists, max clauses at most
ClauseSplits(max) ==
    LET lists == ClauseLists(max) IN
    { t \in lists \X lists \X lists \X lists :
        Len(t[1]) + Len(t[2]) + Len(t[3]) + Len(t[4]) <= max }

BooleanQueries(max) ==
    {[must |-> t[1], filter |-> t[2], should |-> t[3], must_not |-> t[4],
      minimum_should_match |-> msm, boost |-> b] :
        t \in ClauseSplits(max), msm \in OptString, b \in OptFloat}

CompoundQueries(max) ==
    {[boolean |-> None]} \cup {[boolean |-> Some(b)] : b \in BooleanQueries(max)}

NestedQueries(max) ==
    {[path |-> "p", query |-> c, ignore_unmapped |-> iu] :
        c \in CompoundQueries(max), iu \in BOOLEAN}

\* The fields of Query, and the values each may hold
Slots ==
    {"exists", "term", "terms", "range", "regexp", "match_",
     "simple_query_string", "query_string", "nested", "boolean"}

ValuesOf(slot) ==
    CASE slot = "exists" -> ExistsQueries
      [] slot = "term" -> TermQueries
      [] slot = "terms" -> TermsQueries
      [] slot = "range" -> RangeQueries
      [] slot = "regexp" -> RegexpQueries
      [] slot = "match_" -> MatchQueries
      [] slot = "simple_query_string" -> SimpleQueryStringQueries
      [] slot = "query_string" -> QueryStringQueries
      [] slot = "nested" -> NestedQueries(MaxClauses)
      [] slot = "boolean" -> BooleanQueries(MaxClauses)

\* One value of each field, for the queries with several fields defined
SampleOf(slot) ==
    CASE slot = "exists" -> [field |-> "f"]
      [] slot = "term" -> [field |-> "f", value |-> "v", boost |-> None]
      [] slot = "terms" -> [field |-> "f", values |-> <<"v">>, boost |-> Some(Finite(2))]
      [] slot = "range" ->
            [field |-> "f", greater_than |-> Some("s"),
             greater_than_or_equal_to |-> None, less_than |-> None,
             less_than_or_equal_to |-> None, time_zone |-> None, boost |-> None]
      [] slot = "regexp" -> [field |-> "f", value |-> "v", flags |-> Some("s")]
      [] slot = "match_" -> [field |-> "f", query |-> "v"]
      [] slot = "simple_query_string" -> [fields |-> <<>>, query |-> "v"]
      [] slot = "query_string" -> QueryStringOf("v")
      [] slot = "nested" ->
            [path |-> "p", query |-> [boolean |-> None], ignore_unmapped |-> FALSE]
      [] slot = "boolean" ->
            [DefaultBooleanQuery EXCEPT !.filter = <<QueryOf("exists", [field |-> "f"])>>]

\* The Query values: one field defined, with every value of it; or any
\* other number of fields defined (the fields are public)
SingleQueries(slots) ==
    UNION { {QueryOf(slot, v) : v \in ValuesOf(slot)} : slot \in slots }

OtherQueries ==
    { [slot \in Slots |-> IF slot \in S THEN Some(SampleOf(slot)) ELSE None] :
        S \in {T \in SUBSET Slots : Cardinality(T) /= 1} }

Queries(slots) == SingleQueries(slots) \cup OtherQueries

\* The fields of q that are defined
Inhabited(q) == {slot \in Slots : is_some(q[slot])}

\* ------------------------------------------------------------------------
\* Search queries: conversions and push
\* ------------------------------------------------------------------------

\* At most this many push calls on one CompoundQuery
MaxPush == 2

\* impl From<ExistsQuery> for Query, and the eight impls after it: the
\* field of the argument's type is Some(filter), every other field is None
Query_from_ExistsQuery(x) == QueryOf("exists", x)

Query_from_TermQuery(x) == QueryOf("term", x)

\* A conversion that also fills `exists`
Query_from_TermsQuery_two(x) ==
    [QueryOf("terms", x) EXCEPT !.exists = Some([field |-> x.field])]

Query_from_TermsQuery(x) == QueryOf("terms", x)

Query_from_RangeQuery(x) == QueryOf("range", x)

Query_from_RegexpQuery(x) == QueryOf("regexp", x)

Query_from_MatchQuery(x) == QueryOf("match_", x)

Query_from_SimpleQueryStringQuery(x) == QueryOf("simple_query_string", x)

Query_from_QueryStringQuery(x) == QueryOf("query_string", x)

Query_from_NestedQuery(x) == QueryOf("nested", x)

\* `filter.into()` for an argument of one of the nine types, given as
\* <<type, value>>
into_Query(arg) ==
    CASE arg[1] = "exists" -> Query_from_ExistsQuery(arg[2])
      [] arg[1] = "term" -> Query_from_TermQuery(arg[2])
      [] arg[1] = "terms" -> Query_from_TermsQuery(arg[2])
      [] arg[1] = "range" -> Query_from_RangeQuery(arg[2])
      [] arg[1] = "regexp" -> Query_from_RegexpQuery(arg[2])
      [] arg[1] = "match_" -> Query_from_MatchQuery(arg[2])
      [] arg[1] = "simple_query_string" -> Query_from_SimpleQueryStringQuery(arg[2])
      [] arg[1] = "query_string" -> Query_from_QueryStringQuery(arg[2])
      [] arg[1] = "nested" -> Query_from_NestedQuery(arg[2])

\* The types with an `impl From<..> for Query`
FromTypes == Slots \ {"boolean"}

\* The values the model converts: every value of the types with few values,
\* and two values of the types with many
Inputs(slot) ==
    CASE slot = "range" ->
            { SampleOf("range"),
              [SampleOf("range") EXCEPT !.less_than = Some("s"),
                                        !.boost = Some(NonFinite)] }
      [] slot = "query_string" ->
            { SampleOf("query_string"),
              [SampleOf("query_string") EXCEPT !.boost = NonFinite] }
      [] slot = "nested" ->
            { SampleOf("nested"),
              [SampleOf("nested") EXCEPT
                  !.query = [boolean |-> Some(SampleOf("boolean"))],
                  !.ignore_unmapped = TRUE] }
      [] OTHER -> ValuesOf(slot)

\* The arguments the model converts and pushes: one of each type
Args == {<<slot, SampleOf(slot)>> : slot \in FromTypes}

\* BooleanQuery::push that appends to `must`
BooleanQuery_push_must(b, x) == [b EXCEPT !.must = Append(@, x)]

\* BooleanQuery::push, had it put the query in front of the filters
BooleanQuery_push_front(b, x) == [b EXCEPT !.filter = <<x>> \o @]

\* BooleanQuery::push, with filter.into() as x
BooleanQuery_push(b, x) == [b EXCEPT !.filter = Append(@, x)]

\* CompoundQuery::push, with filter.into() as x
CompoundQuery_push(c, x) ==
    IF is_some(c.boolean)
    THEN [boolean |-> Some(BooleanQuery_push(unwrap(c.boolean), x))]
    ELSE [boolean |-> Some([must |-> <<>>, filter |-> <<x>>, should |-> <<>>,
                            must_not |-> <<>>, minimum_should_match |-> None,
                            boost |-> None])]

\* The CompoundQuery values push starts from: the default, and two with a
\* bool query that has clauses
StartCompounds ==
    { [boolean |-> None],
      [boolean |-> Some([DefaultBooleanQuery EXCEPT
                            !.must = <<QueryOf("exists", [field |-> "f"])>>,
                            !.boost = Some(Finite(2))])],
      [boolean |-> Some([DefaultBooleanQuery EXCEPT
                            !.filter = <<QueryOf("match_", [field |-> "f", query |-> "v"])>>,
                            !.should = <<QueryOf("exists", [field |-> "f"])>>])] }

\* ------------------------------------------------------------------------
\* Aggregation requests: the values
\* ------------------------------------------------------------------------

\* The most nodes of a request tree
MaxAggs == 3

\* The names of the aggregations, in the order of String::partial_cmp
AggNames == <<"a", "b">>

\* An Aggregation that defines nothing
DefaultAggregation ==
    [f \in FieldNames(SubAggregationSchema) \cup {"name"} |->
        IF f = "name" THEN "" ELSE None]

\* `field: "x"` alone
InnerOnField == [field |-> Some("x"), script |-> None, missing |-> None]

\* A script with parameters and a value for the documents without one
InnerOnScript ==
    [field |-> None,
     script |-> Some([source |-> "s", params |-> Some([p |-> JNum(1)])]),
     missing |-> Some(Finite(1))]

\* `missing: f64::NAN`
InnerMissingNaN == [field |-> Some("x"), script |-> None, missing |-> Some(NonFinite)]

\* A filter whose only clause is a terms query on the field "boost"
FilterOnBoost ==
    [boolean |-> Some([DefaultBooleanQuery EXCEPT
        !.filter = <<QueryOf("terms", [field |-> "boost", values |-> <<"v">>,
                                       boost |-> None])>>])]

\* What one node of a request defines, its name and children aside
Payloads ==
    { [DefaultAggregation EXCEPT !.avg = Some(InnerOnField)],
      [DefaultAggregation EXCEPT !.sum = Some(InnerOnScript),
                                 !.metadata = Some([k |-> JStr("v")])],
      [DefaultAggregation EXCEPT !.avg = Some(InnerMissingNaN)],
      [DefaultAggregation EXCEPT !.filters = Some(FilterOnBoost)] }

\* The request trees of exactly n nodes, and the lists of them of n nodes
\* in all
RECURSIVE AggsOfSize(_), ListsOfSize(_)
AggsOfSize(n) ==
    { [p EXCEPT !.name = nm, !.aggregations = ch] :
        nm \in Range(AggNames), p \in Payloads,
        ch \in IF n = 1
               THEN {None, Some(<<>>)}
               ELSE { Some(l) : l \in ListsOfSize(n - 1) } }

ListsOfSize(n) ==
    IF n = 0
    THEN {<<>>}
    ELSE UNION { { <<a>> \o l : a \in AggsOfSize(k), l \in ListsOfSize(n - k) } :
                 k \in 1..n }

\* Every request tree of at most max nodes
Requests(max) == UNION { AggsOfSize(n) : n \in 1..max }

\* HashMap::into_iter yields the entries in an order of its own, at every
\* level of the tree: the trees that a decoded tree may come out as
RECURSIVE Shuffles(_)
Shuffles(agg) ==
    IF agg.aggregations = None
    THEN {agg}
    ELSE LET aggs == unwrap(agg.aggregations)
             all == UNION { Shuffles(aggs[i]) : i \in DOMAIN aggs }
         IN  { [agg EXCEPT !.aggregations = Some(l)] :
                 l \in UNION { { s \in [DOMAIN aggs -> all] :
                                   \A i \in DOMAIN aggs : s[i] \in Shuffles(aggs[o[i]]) } :
                               o \in Orders(DOMAIN aggs) } }

\* `aggs.sort_by(|a, b| a.name.partial_cmp(&b.name))`: a stable sort
RECURSIVE sort_by_name(_, _)
sort_by_name(aggs, from) ==
    IF from > Len(AggNames)
    THEN <<>>
    ELSE SelectSeq(aggs, LAMBDA a : a.name = AggNames[from])
            \o sort_by_name(aggs, from + 1)

\* The tree with the children of every node sorted by name
RECURSIVE Sorted(_)
Sorted(agg) ==
    IF agg.aggregations = None
    THEN agg
    ELSE LET aggs == unwrap(agg.aggregations) IN
         [agg EXCEPT !.aggregations =
             Some(sort_by_name([i \in DOMAIN aggs |-> Sorted(aggs[i])], 1))]

\* ------------------------------------------------------------------------
\* Aggregation response: the state machine
\* ------------------------------------------------------------------------

VARIABLES
    \* the conversion of an aggregation response
    top,            \* the value under `aggregations` in the top-level object
    doc,            \* the JSON document handed to the decoder
    tree,           \* ElasticAggregationResponse: the decoded nodes
    pending_aggs,   \* the work list of (parent, aggs)
    parent,         \* the parent of the popped entry
    todo,           \* the entries `aggs.iter()` has not yielded yet
    results,        \* the map (parent, name) => ComputedResult
    response,       \* Response.aggregations, once built
    pc,             \* where the conversion stands
    run,            \* 1 for the first conversion of doc, 2 for the second
    first,          \* Response.aggregations of the first conversion
    \* the codec of Query
    q,              \* the Query at hand
    json,           \* the JSON written for q, or received
    origin,         \* "serialize" or "received": where json comes from
    decoded,        \* the result of reading json as a Query
    \* the conversions into Query and CompoundQuery::push
    converted,      \* the Query the last From conversion returned
    compound,       \* the CompoundQuery pushed to
    pushed,         \* the number of push calls so far
    filter,         \* the Query the last push call stored
    start,          \* the CompoundQuery before the first push call
    calls,          \* the Queries of the push calls so far, in call order
    \* the codec of the aggregation request
    request,        \* the Aggregation at hand
    request_json,   \* the JSON written for it
    request_decoded, \* the result of reading request_json as an Aggregation
    \* the parsing of a response key
    key_input,      \* the key handed to split_ty_and_name
    key_split,      \* the (Ty, String) it returned
    \* the codec of Sort
    sort_value,     \* the Sort at hand
    sort_json,      \* the JSON written for it
    sort_decoded,   \* the result of reading sort_json as a Sort
    \* the parsing of a SortedValue
    sorted_input,   \* the value handed to a parser
    sorted_path,    \* the parser it was handed to
    sorted_parsed,  \* the Result the parser returned
    \* the codec of the queries keyed by their field
    leaf,           \* the query at hand, with its type
    leaf_json,      \* the JSON written for it, or received, with the type
    leaf_decoded,   \* the result of reading leaf_json as that type
    \* the calls of is_empty
    empty_of,       \* the BooleanQuery or CompoundQuery asked, with its type
    empty_result    \* what is_empty returned

aggVars == <<top, doc, tree, pending_aggs, parent, todo, results, response, pc, run, first>>

queryVars == <<q, json, origin, decoded>>

pushVars == <<converted, compound, pushed, filter, start, calls>>

requestVars == <<request, request_json, request_decoded>>

keyVars == <<key_input, key_split>>

sortVars == <<sort_value, sort_json, sort_decoded>>

sortedVars == <<sorted_input, sorted_path, sorted_parsed>>

leafVars == <<leaf, leaf_json, leaf_decoded>>

emptyVars == <<empty_of, empty_result>>

vars ==
    <<aggVars, queryVars, pushVars, requestVars, keyVars, sortVars, sortedVars,
      leafVars, emptyVars>>

\* The parts of the state a specification does not use stay as they start
AggIdle ==
    /\ top = None
    /\ doc = <<>>
    /\ tree = <<>>
    /\ pending_aggs = <<>>
    /\ parent = None
    /\ todo = {}
    /\ results = <<>>
    /\ response = None
    /\ pc = "idle"
    /\ run = 1
    /\ first = None

QueryIdle == q = None /\ json = None /\ origin = "" /\ decoded = None

PushIdle ==
    /\ converted = None
    /\ compound = [boolean |-> None]
    /\ pushed = 0
    /\ filter = None
    /\ start = [boolean |-> None]
    /\ calls = <<>>

RequestIdle == request = None /\ request_json = None /\ request_decoded = None

KeyIdle == key_input = None /\ key_split = None

SortIdle == sort_value = None /\ sort_json = None /\ sort_decoded = None

SortedIdle == sorted_input = None /\ sorted_path = "" /\ sorted_parsed = None

LeafIdle == leaf = None /\ leaf_json = None /\ leaf_decoded = None

EmptyIdle == empty_of = None /\ empty_result = None

EmptyResults == [k \in {} |-> DefaultResult]

\* The entries of the map a work-list item refers to: the top-level map (0)
\* or the `aggregations` of a decoded node
aggs_of(d, t, id) == IF id = 0 THEN SubAggregations(d, 0) ELSE t[id].aggregations

InitAgg ==
    /\ top = None
    /\ doc = <<>>
    /\ tree = <<>>
    /\ pending_aggs = <<>>
    /\ parent = None
    /\ todo = {}
    /\ results = EmptyResults
    /\ response = None
    /\ pc = "receive"
    /\ run = 1
    /\ first = None
    /\ QueryIdle /\ PushIdle /\ RequestIdle
    /\ KeyIdle /\ SortIdle /\ SortedIdle /\ LeafIdle /\ EmptyIdle

\* The response arrives: its top-level object has an entry under
\* `aggregations` or under the alias `aggs`, which the decoder reads alike;
\* the value of the entry is an object or null. A response without such an
\* entry is one on which this step is not taken.
ReceiveTop ==
    /\ pc = "receive"
    /\ top = None
    /\ \E v \in {"object", "null"} : top' = Some(v)
    /\ UNCHANGED <<doc, tree, pending_aggs, parent, todo, results, response, pc, run,
                   first>>
    /\ UNCHANGED <<queryVars, pushVars, requestVars,
                 keyVars, sortVars, sortedVars, leafVars, emptyVars>>

\* The next object below the aggregations of the document, MaxNodes objects
\* at most
ReceiveObject ==
    /\ pc = "receive"
    /\ is_some(top)
    /\ unwrap(top) = "object"
    /\ Len(doc) < MaxNodes
    /\ \E r \in NodeChoices(doc, Len(doc) + 1) :
          /\ WellFormed(Append(doc, r))
          /\ doc' = Append(doc, r)
    /\ UNCHANGED <<top, tree, pending_aggs, parent, todo, results, response, pc, run,
                   first>>
    /\ UNCHANGED <<queryVars, pushVars, requestVars,
                 keyVars, sortVars, sortedVars, leafVars, emptyVars>>

\* Response's Deserialize, had the `aggregations` field no `default`: a
\* response without the entry is an error
Deserialize_strict ==
    /\ pc \in {"receive", "deserialize"}
    /\ IF top /= Some("object")
       THEN /\ pc' = "error"
            /\ UNCHANGED <<tree, pending_aggs, parent, todo, results>>
       ELSE /\ tree' = Decoded(doc)
            /\ pending_aggs' = <<[parent |-> None, aggs |-> 0]>>
            /\ parent' = None
            /\ todo' = {}
            /\ results' = EmptyResults
            /\ pc' = "while"
    /\ UNCHANGED <<top, doc, response, run, first>>
    /\ UNCHANGED <<queryVars, pushVars, requestVars,
                 keyVars, sortVars, sortedVars, leafVars, emptyVars>>

\* Response's Deserialize: decode into ElasticAggregationResponse, then enter
\* From::from up to `let mut pending_aggs = vec![(None, &aggs)]`. The field
\* is `#[serde(default, alias = "aggs")] aggregations: HashMap<..>`: without
\* the entry the map is empty, and an entry that holds null is an error.
Deserialize ==
    /\ pc \in {"receive", "deserialize"}
    /\ IF is_some(top) /\ unwrap(top) /= "object"
       THEN /\ pc' = "error"
            /\ UNCHANGED <<tree, pending_aggs, parent, todo, results>>
       ELSE /\ tree' = Decoded(doc)
            /\ pending_aggs' = <<[parent |-> None, aggs |-> 0]>>
            /\ parent' = None
            /\ todo' = {}
            /\ results' = EmptyResults
            /\ pc' = "while"
    /\ UNCHANGED <<top, doc, response, run, first>>
    /\ UNCHANGED <<queryVars, pushVars, requestVars,
                 keyVars, sortVars, sortedVars, leafVars, emptyVars>>

\* `while let Some(curr) = pending_aggs.pop()` with an entry to pop
WhilePop ==
    /\ pc = "while"
    /\ todo = {}
    /\ pending_aggs /= <<>>
    /\ LET curr == pending_aggs[Len(pending_aggs)] IN
        /\ parent' = curr.parent
        /\ todo' = aggs_of(doc, tree, curr.aggs)
    /\ pending_aggs' = SubSeq(pending_aggs, 1, Len(pending_aggs) - 1)
    /\ UNCHANGED <<doc, tree, results, response, pc, run, first, top>>
    /\ UNCHANGED <<queryVars, pushVars, requestVars,
                 keyVars, sortVars, sortedVars, leafVars, emptyVars>>

\* One iteration of `for (ty_and_name, curr_agg) in aggs.iter()`; the map
\* yields its entries in an order of its own
ForEntry ==
    /\ pc = "while"
    /\ \E n \in todo :
        LET after == for_entry(doc, tree, results, pending_aggs, parent, n) IN
        /\ results' = after.results
        /\ pending_aggs' = after.pending_aggs
        /\ todo' = todo \ {n}
    /\ UNCHANGED <<doc, tree, parent, response, pc, run, first, top>>
    /\ UNCHANGED <<queryVars, pushVars, requestVars,
                 keyVars, sortVars, sortedVars, leafVars, emptyVars>>

\* The loop has ended: `results.into_iter().map(|(_, agg)| agg).collect()`
IntoResponse ==
    /\ pc = "while"
    /\ todo = {}
    /\ pending_aggs = <<>>
    /\ \E o \in Orders(Range(results)) : response' = Some(o)
    /\ pc' = "done"
    /\ UNCHANGED <<doc, tree, pending_aggs, parent, todo, results, run, first, top>>
    /\ UNCHANGED <<queryVars, pushVars, requestVars,
                 keyVars, sortVars, sortedVars, leafVars, emptyVars>>

\* The same document is converted a second time
Again ==
    /\ pc = "done"
    /\ run = 1
    /\ first' = response
    /\ run' = 2
    /\ response' = None
    /\ pc' = "deserialize"
    /\ UNCHANGED <<top, doc, tree, pending_aggs, parent, todo, results>>
    /\ UNCHANGED <<queryVars, pushVars, requestVars,
                 keyVars, sortVars, sortedVars, leafVars, emptyVars>>

NextAgg ==
    \/ ReceiveTop
    \/ ReceiveObject
    \/ Deserialize
    \/ WhilePop
    \/ ForEntry
    \/ IntoResponse
    \/ Again

SpecAgg == InitAgg /\ [][NextAgg]_vars

\* ------------------------------------------------------------------------
\* Aggregation response: properties
\* ------------------------------------------------------------------------

\* Object n of the document has a member under key k
HasMember(n, k) == \E i \in DOMAIN doc[n].members : doc[n].members[i].k = k

\* Object n carries metadata with "_skip": true
CarriesSkip(n) ==
    \E i \in DOMAIN doc[n].members :
        LET m == doc[n].members[i] IN
        /\ m.k \in {"meta", "metadata"}
        /\ "_skip" \in DOMAIN m.o
        /\ m.o["_skip"] = [t |-> "Bool", b |-> TRUE]

\* Object n has a "buckets" array with an element
HasBuckets(n) == \E i \in DOMAIN doc : doc[i].up = n /\ doc[i].slot = "bucket"

\* Object n is an aggregation node, or a bucket without sub-aggregations
TreatedAsLeaf(n) ==
    \/ doc[n].slot = "agg"
    \/ doc[n].slot = "bucket" /\ SubAggregations(doc, n) = {}

\* Object m lies inside object n
RECURSIVE IsUnder(_, _)
IsUnder(m, n) == doc[m].up /= 0 /\ (doc[m].up = n \/ IsUnder(doc[m].up, n))

\* The results of the finished conversion and the numbers they hold
Flattened == IF is_some(response) THEN Range(unwrap(response)) ELSE {}

Emitted == UNION { Range(r.values) : r \in Flattened }

\* How often the number x occurs in the values of the results
Occurrences(x) ==
    LET rs == unwrap(response) IN
    Cardinality({ <<i, j>> \in (DOMAIN rs) \X (1..MaxNodes) :
                    j <= Len(rs[i].values) /\ rs[i].values[j] = x })

ConversionDone == pc = "done"

\* C1: every result of the flattened list has as many fields as values,
\* unless it has no fields and one value.
C1_FieldsMatchValues ==
    ConversionDone =>
        \A r \in Flattened :
            \/ Len(r.fields) = Len(r.values)
            \/ r.fields = <<>> /\ Len(r.values) = 1

SaidToContribute(n) ==
    IF HasMember(n, "value")
    THEN Some(ValueOf(n))
    ELSE IF HasMember(n, "doc_count") /\ ~HasBuckets(n)
    THEN Some(DocOf(n))
    ELSE None

\* Node n gives exactly the number c (or none, if c is None) to the results
Contributes(n, c) ==
    /\ \A x \in {ValueOf(n), DocOf(n)} :
           Occurrences(x) = IF c = Some(x) THEN 1 ELSE 0

\* C10 as stated: a node treated as a leaf contributes its value if it has
\* one, else its doc_count if it has one and has no non-empty buckets, and
\* nothing in every other case.
C10_AsStated ==
    ConversionDone =>
        \A n \in DOMAIN doc :
            TreatedAsLeaf(n) => Contributes(n, SaidToContribute(n))

\* C10: the same, for the nodes whose metadata does not carry "_skip": true;
\* a node that carries it contributes nothing.
C10_ValueElseDocCount ==
    ConversionDone =>
        \A n \in DOMAIN doc :
            TreatedAsLeaf(n) =>
                Contributes(n, IF CarriesSkip(n) THEN None ELSE SaidToContribute(n))

\* The three cases in one document: a value used, a doc_count used, and a
\* doc_count not used because the node has a bucket
C10_Witness ==
    /\ ConversionDone
    /\ \E n \in DOMAIN doc :
           /\ HasMember(n, "value") /\ HasMember(n, "doc_count")
           /\ Occurrences(ValueOf(n)) = 1
    /\ \E n \in DOMAIN doc :
           /\ ~HasMember(n, "value") /\ HasMember(n, "doc_count") /\ HasBuckets(n)
           /\ ~CarriesSkip(n)
           /\ Occurrences(DocOf(n)) = 0
    /\ \E n \in DOMAIN doc :
           /\ ~HasMember(n, "value") /\ doc[n].slot = "bucket"
           /\ Occurrences(DocOf(n)) = 1

\* A histogram-like node whose two buckets have numeric keys only: a result
\* with no field and two values
C1_TwoValuesNoField ==
    /\ ConversionDone
    /\ \E r \in Flattened : r.fields = <<>> /\ Len(r.values) = 2

\* Both conversions of the document have finished
BothDone == pc = "done" /\ run = 2 /\ is_some(first)

\* C7 as stated: two conversions of the same document give the same list:
\* the same results in the same order, each with the same type, metadata and
\* the same order of fields and values.
C7_AsStated == BothDone => response = first

\* How often x occurs in the sequence s
Count(s, x) == Cardinality({i \in DOMAIN s : s[i] = x})

\* The sequences s and t hold the same elements, each as often
SameBag(s, t) ==
    /\ Len(s) = Len(t)
    /\ \A x \in Range(s) \cup Range(t) : Count(s, x) = Count(t, x)

KeyOf(r) == <<r.parent, r.name>>

\* C7: two conversions of the same document give results for the same
\* (parent, name) pairs, one result per pair, and the two results of a pair
\* hold the same fields and the same values, each as often.
C7_SameResultsUpToOrder ==
    BothDone =>
        LET a == unwrap(first)
            b == unwrap(response)
        IN  /\ Len(a) = Len(b)
            /\ {KeyOf(r) : r \in Range(a)} = {KeyOf(r) : r \in Range(b)}
            /\ Cardinality({KeyOf(r) : r \in Range(a)}) = Len(a)
            /\ \A r \in Range(a) : \A o \in Range(b) :
                   KeyOf(r) = KeyOf(o) =>
                       /\ SameBag(r.fields, o.fields)
                       /\ SameBag(r.values, o.values)

\* Two conversions of one document whose lists differ in the type of a
\* result and in the order of its values
C7_Witness ==
    /\ BothDone
    /\ \E r \in Range(unwrap(first)) : \E o \in Range(unwrap(response)) :
           /\ KeyOf(r) = KeyOf(o)
           /\ r.type_ /= o.type_
           /\ r.values /= o.values
           /\ Len(r.values) = 2

\* ------------------------------------------------------------------------
\* Search queries: the codec as a state machine
\* ------------------------------------------------------------------------

TQuery == TStruct("Query")

\* JSON objects a client may send in the place of a query
JsonInputs ==
    LET exists == <<"exists", JObj(<< <<"field", JStr("f")>> >>)>>
        term == <<"term", JObj(<< <<"f", JObj(<< <<"value", JStr("v")>> >>)>> >>)>>
        prefix == <<"prefix", JObj(<< <<"f", JObj(<< <<"value", JStr("v")>> >>)>> >>)>>
        keyed(tag, inner) == JObj(<< <<tag, JObj(<< <<"f", inner>> >>)>> >>)
        plain(tag, entries) == JObj(<< <<tag, JObj(entries)>> >>)
    IN  { JObj(<<>>),
          keyed("terms", JArr(<<JStr("v")>>)),
          keyed("range", JObj(<< <<"gte", JStr("s")>> >>)),
          keyed("regexp", JObj(<< <<"value", JStr("v")>> >>)),
          keyed("match", JObj(<< <<"query", JStr("v")>> >>)),
          plain("simple_query_string", << <<"query", JStr("v")>> >>),
          plain("query_string", << <<"query", JStr("v")>> >>),
          plain("nested", << <<"path", JStr("p")>>, <<"query", JObj(<<>>)>>,
                             <<"ignore_unmapped", JBool(FALSE)>> >>),
          plain("nested", << <<"path", JStr("p")>>, <<"query", JObj(<<>>)>> >>),
          plain("bool", << <<"filter", JArr(<<JObj(<<exists>>)>>)>> >>),
          plain("bool", <<>>),
          JObj(<<exists>>),
          JObj(<<term>>),
          JObj(<<prefix>>),
          JObj(<<exists, term>>),
          JObj(<<exists, prefix>>),
          JObj(<<exists, exists>>),
          JObj(<< <<"exists", Null>> >>),
          JObj(<< <<"exists", JNum(1)>> >>),
          JObj(<< <<"term", JObj(<<>>)>> >>) }

InitQuery ==
    /\ q = None
    /\ json = None
    /\ origin = ""
    /\ decoded = None
    /\ AggIdle /\ PushIdle /\ RequestIdle
    /\ KeyIdle /\ SortIdle /\ SortedIdle /\ LeafIdle /\ EmptyIdle

\* A Query is built: `Query { exists: .., term: .., .. }`
Construct ==
    /\ q = None
    /\ json = None
    /\ \E x \in Queries(Slots) : q' = Some(x)
    /\ UNCHANGED <<json, origin, decoded>>
    /\ UNCHANGED <<aggVars, pushVars, requestVars,
                 keyVars, sortVars, sortedVars, leafVars, emptyVars>>

\* serde_json::to_string(&q) or serde_json::to_value(&q)
Serialize ==
    /\ is_some(q)
    /\ json = None
    /\ \E h \in HashOrders, target \in {"to_string", "to_value"} :
        LET written == serialize(TQuery, unwrap(q), h) IN
        json' = Some(Ok(IF target = "to_value" THEN to_value(written) ELSE written))
    /\ origin' = "serialize"
    /\ UNCHANGED <<q, decoded>>
    /\ UNCHANGED <<aggVars, pushVars, requestVars,
                 keyVars, sortVars, sortedVars, leafVars, emptyVars>>

\* A JSON object arrives from a client
Receive ==
    /\ q = None
    /\ json = None
    /\ \E j \in JsonInputs : json' = Some(Ok(j))
    /\ origin' = "received"
    /\ UNCHANGED <<q, decoded>>
    /\ UNCHANGED <<aggVars, pushVars, requestVars,
                 keyVars, sortVars, sortedVars, leafVars, emptyVars>>

\* serde_json::from_str::<Query> or serde_json::from_value::<Query>
DeserializeQuery ==
    /\ is_some(json)
    /\ is_ok(unwrap(json))
    /\ decoded = None
    /\ decoded' = Some(deserialize(TQuery, unwrap(json)[2]))
    /\ UNCHANGED <<q, json, origin>>
    /\ UNCHANGED <<aggVars, pushVars, requestVars,
                 keyVars, sortVars, sortedVars, leafVars, emptyVars>>

NextQuery == Construct \/ Serialize \/ Receive \/ DeserializeQuery

SpecQuery == InitQuery /\ [][NextQuery]_vars

\* An Option<f64> that is None or finite
FloatOk(o) == o = None \/ unwrap(o).finite

\* A Query free of the two things the codec does not carry: a number that is
\* NaN or infinite, and a TermsQuery on a field named "boost"; at any depth
RECURSIVE QueryPlain(_), BooleanPlain(_)
QueryPlain(x) ==
    /\ is_some(x.term) => FloatOk(unwrap(x.term).boost)
    /\ is_some(x.terms) =>
          unwrap(x.terms).field /= "boost" /\ FloatOk(unwrap(x.terms).boost)
    /\ is_some(x.range) => FloatOk(unwrap(x.range).boost)
    /\ is_some(x.query_string) => unwrap(x.query_string).boost.finite
    /\ is_some(x.nested) =>
          (is_some(unwrap(x.nested).query.boolean)
              => BooleanPlain(unwrap(unwrap(x.nested).query.boolean)))
    /\ is_some(x.boolean) => BooleanPlain(unwrap(x.boolean))

BooleanPlain(b) ==
    /\ FloatOk(b.boost)
    /\ \A l \in {b.must, b.filter, b.should, b.must_not} :
           \A i \in DOMAIN l : QueryPlain(l[i])

\* The Query has been written and read back
ReadBack == origin = "serialize" /\ is_some(decoded)

\* C3 as stated: for every Query (every variant, every field name, every
\* combination of optional modifiers), decoding its encoding yields it.
C3_AsStated == ReadBack => unwrap(decoded) = Ok(unwrap(q))

\* A terms query on the field "boost" is written, and is not read back
C3_TermsOnBoostFails ==
    /\ ReadBack
    /\ Inhabited(unwrap(q)) = {"terms"}
    /\ unwrap(unwrap(q).terms).field = "boost"
    /\ FloatOk(unwrap(unwrap(q).terms).boost)
    /\ ~is_ok(unwrap(decoded))

\* What holds of the round trip: decoding the encoding of a Query yields the
\* Query when no number in it is NaN or infinite and no TermsQuery in it is
\* on a field named "boost".
C3_RoundTrip ==
    (ReadBack /\ QueryPlain(unwrap(q))) => unwrap(decoded) = Ok(unwrap(q))

\* A terms query with values and a boost, read back as written
C3_Witness ==
    /\ ReadBack
    /\ unwrap(decoded) = Ok(unwrap(q))
    /\ is_some(unwrap(q).terms)
    /\ unwrap(unwrap(q).terms).values /= <<>>
    /\ is_some(unwrap(unwrap(q).terms).boost)
    /\ Inhabited(unwrap(q)) = {"terms"}

\* C4: encoding a Query with no variant, or with more than one, fails and
\* produces no JSON.
C4_AsStated ==
    (origin = "serialize" /\ Cardinality(Inhabited(unwrap(q))) /= 1)
        => ~is_ok(unwrap(json))

\* A Query with no variant is written as `{}`
C4_NoVariantWritten ==
    /\ origin = "serialize"
    /\ Inhabited(unwrap(q)) = {}
    /\ json = Some(Ok(JObj(<<>>)))

\* The object `{}` arrives and is read as a Query with no variant
C5_EmptyObjectDecodes ==
    /\ origin = "received"
    /\ json = Some(Ok(JObj(<<>>)))
    /\ decoded = Some(Ok(NoQuery))

\* C5: a JSON object decodes as a Query only if it has exactly one key and
\* the key is a tag of Query.
C5_AsStated ==
    (is_some(decoded) /\ is_ok(unwrap(decoded))) =>
        LET entries == unwrap(json)[2][2] IN
        /\ Len(entries) = 1
        /\ entries[1][1] \in FieldKeys(QuerySchema)

\* The eleven tags of a query, each with the field of Query named after it
\* and the type its value is read as
Tags ==
    { <<"exists", "exists", TStruct("ExistsQuery")>>,
      <<"term", "term", TCustom("TermQuery")>>,
      <<"terms", "terms", TCustom("TermsQuery")>>,
      <<"range", "range", TCustom("RangeQuery")>>,
      <<"regexp", "regexp", TCustom("RegexpQuery")>>,
      <<"prefix", "prefix", TCustom("PrefixQuery")>>,
      <<"match", "match_", TCustom("MatchQuery")>>,
      <<"simple_query_string", "simple_query_string",
        TStruct("SimpleQueryStringQuery")>>,
      <<"query_string", "query_string", TStruct("QueryStringQuery")>>,
      <<"nested", "nested", TStruct("NestedQuery")>>,
      <<"bool", "boolean", TStruct("BooleanQuery")>> }

\* The JSON at hand is an object of one key, the tag t, over a value that
\* reads as the type of t
OneTagged(t) ==
    LET j == unwrap(json)[2] IN
    /\ j[1] = "obj"
    /\ Len(j[2]) = 1
    /\ j[2][1][1] = t[1]
    /\ is_ok(deserialize(t[3], j[2][1][2]))

\* C15, as stated: reading an object of one key, one of the eleven tags,
\* over a well-formed value gives a Query with exactly the field of that tag
\* defined.
C15_AsStated ==
    is_some(decoded) =>
        \A t \in Tags :
            OneTagged(t) =>
                /\ is_ok(unwrap(decoded))
                /\ \A slot \in Slots \cup {"prefix"} :
                      (slot \in DOMAIN unwrap(decoded)[2]
                          /\ is_some(unwrap(decoded)[2][slot])) <=> slot = t[2]

\* `{"prefix": {"f": {"value": "v"}}}` arrives and is read as a Query with no
\* field defined
C15_PrefixNotRead ==
    /\ origin = "received"
    /\ json = Some(Ok(JObj(<< <<"prefix",
                                JObj(<< <<"f", JObj(<< <<"value", JStr("v")>> >>)>> >>)>> >>)))
    /\ decoded = Some(Ok(NoQuery))

\* What holds of the tags: for each of the ten tags other than prefix, such
\* an object reads as a Query with exactly the field of the tag defined.
C15_TenTags ==
    is_some(decoded) =>
        \A t \in Tags :
            (t[1] /= "prefix" /\ OneTagged(t)) =>
                /\ is_ok(unwrap(decoded))
                /\ Inhabited(unwrap(decoded)[2]) = {t[2]}

\* A well-formed object tagged bool has arrived and been read
C15_Witness ==
    /\ origin = "received"
    /\ is_some(decoded)
    /\ OneTagged(<<"bool", "boolean", TStruct("BooleanQuery")>>)
    /\ Inhabited(unwrap(decoded)[2]) = {"boolean"}

\* `{"nested": {"path": "p", "query": {}}}`: a nested query with path and
\* query and without ignore_unmapped
NestedWithoutIgnoreUnmapped ==
    JObj(<< <<"nested", JObj(<< <<"path", JStr("p")>>, <<"query", JObj(<<>>)>> >>)>> >>)

\* C21, as stated: a nested query whose object has path and query and no
\* ignore_unmapped key decodes, and its ignore_unmapped is false.
C21_AsStated ==
    (is_some(decoded) /\ json = Some(Ok(NestedWithoutIgnoreUnmapped))) =>
        /\ is_ok(unwrap(decoded))
        /\ is_some(unwrap(decoded)[2].nested)
        /\ unwrap(unwrap(decoded)[2].nested).ignore_unmapped = FALSE

\* The object arrives and reading it fails: ignore_unmapped is a plain bool
\* field of the derive, with no default
C21_MissingFieldIsError ==
    /\ origin = "received"
    /\ json = Some(Ok(NestedWithoutIgnoreUnmapped))
    /\ decoded = Some(Err)

\* ------------------------------------------------------------------------
\* Search queries: conversions and push as a state machine
\* ------------------------------------------------------------------------

InitPush ==
    /\ converted = None
    /\ compound \in StartCompounds
    /\ pushed = 0
    /\ filter = None
    /\ start = compound
    /\ calls = <<>>
    /\ AggIdle /\ QueryIdle /\ RequestIdle
    /\ KeyIdle /\ SortIdle /\ SortedIdle /\ LeafIdle /\ EmptyIdle

\* Query::from(x) for x: ExistsQuery
FromExistsQuery ==
    /\ \E x \in Inputs("exists") : converted' = Some(Query_from_ExistsQuery(x))
    /\ UNCHANGED <<compound, pushed, filter, start, calls>>
    /\ UNCHANGED <<aggVars, queryVars, requestVars,
                 keyVars, sortVars, sortedVars, leafVars, emptyVars>>

\* Query::from(x) for x: TermQuery
FromTermQuery ==
    /\ \E x \in Inputs("term") : converted' = Some(Query_from_TermQuery(x))
    /\ UNCHANGED <<compound, pushed, filter, start, calls>>
    /\ UNCHANGED <<aggVars, queryVars, requestVars,
                 keyVars, sortVars, sortedVars, leafVars, emptyVars>>

\* Query::from(x) for x: TermsQuery
FromTermsQuery ==
    /\ \E x \in Inputs("terms") : converted' = Some(Query_from_TermsQuery(x))
    /\ UNCHANGED <<compound, pushed, filter, start, calls>>
    /\ UNCHANGED <<aggVars, queryVars, requestVars,
                 keyVars, sortVars, sortedVars, leafVars, emptyVars>>

\* Query::from(x) for x: RangeQuery
FromRangeQuery ==
    /\ \E x \in Inputs("range") : converted' = Some(Query_from_RangeQuery(x))
    /\ UNCHANGED <<compound, pushed, filter, start, calls>>
    /\ UNCHANGED <<aggVars, queryVars, requestVars,
                 keyVars, sortVars, sortedVars, leafVars, emptyVars>>

\* Query::from(x) for x: RegexpQuery
FromRegexpQuery ==
    /\ \E x \in Inputs("regexp") : converted' = Some(Query_from_RegexpQuery(x))
    /\ UNCHANGED <<compound, pushed, filter, start, calls>>
    /\ UNCHANGED <<aggVars, queryVars, requestVars,
                 keyVars, sortVars, sortedVars, leafVars, emptyVars>>

\* Query::from(x) for x: MatchQuery
FromMatchQuery ==
    /\ \E x \in Inputs("match_") : converted' = Some(Query_from_MatchQuery(x))
    /\ UNCHANGED <<compound, pushed, filter, start, calls>>
    /\ UNCHANGED <<aggVars, queryVars, requestVars,
                 keyVars, sortVars, sortedVars, leafVars, emptyVars>>

\* Query::from(x) for x: SimpleQueryStringQuery
FromSimpleQueryStringQuery ==
    /\ \E x \in Inputs("simple_query_string") : converted' = Some(Query_from_SimpleQueryStringQuery(x))
    /\ UNCHANGED <<compound, pushed, filter, start, calls>>
    /\ UNCHANGED <<aggVars, queryVars, requestVars,
                 keyVars, sortVars, sortedVars, leafVars, emptyVars>>

\* Query::from(x) for x: QueryStringQuery
FromQueryStringQuery ==
    /\ \E x \in Inputs("query_string") : converted' = Some(Query_from_QueryStringQuery(x))
    /\ UNCHANGED <<compound, pushed, filter, start, calls>>
    /\ UNCHANGED <<aggVars, queryVars, requestVars,
                 keyVars, sortVars, sortedVars, leafVars, emptyVars>>

\* Query::from(x) for x: NestedQuery
FromNestedQuery ==
    /\ \E x \in Inputs("nested") : converted' = Some(Query_from_NestedQuery(x))
    /\ UNCHANGED <<compound, pushed, filter, start, calls>>
    /\ UNCHANGED <<aggVars, queryVars, requestVars,
                 keyVars, sortVars, sortedVars, leafVars, emptyVars>>

\* compound.push(x) for x of one of the nine types
Push ==
    /\ pushed < MaxPush
    /\ \E arg \in Args :
        /\ filter' = Some(into_Query(arg))
        /\ compound' = CompoundQuery_push(compound, into_Query(arg))
        /\ calls' = Append(calls, into_Query(arg))
    /\ pushed' = pushed + 1
    /\ UNCHANGED <<converted, start>>
    /\ UNCHANGED <<aggVars, queryVars, requestVars,
                 keyVars, sortVars, sortedVars, leafVars, emptyVars>>

NextPush ==
    \/ FromExistsQuery
    \/ FromTermQuery
    \/ FromTermsQuery
    \/ FromRangeQuery
    \/ FromRegexpQuery
    \/ FromMatchQuery
    \/ FromSimpleQueryStringQuery
    \/ FromQueryStringQuery
    \/ FromNestedQuery
    \/ Push

SpecPush == InitPush /\ [][NextPush]_vars

\* The Query x has exactly one field defined and is written as a JSON object
\* with exactly one key
OneVariant(x) ==
    /\ Cardinality(Inhabited(x)) = 1
    /\ \A h \in HashOrders : Len(serialize(TQuery, x, h)[2]) = 1

\* The queries a BooleanQuery holds in its four lists
Held(b) ==
    UNION { Range(l) : l \in {b.must, b.filter, b.should, b.must_not} }

\* C6: a Query returned by one of the From conversions, and every Query a
\* CompoundQuery holds after push calls with values of those types, has
\* exactly one field defined and is written as an object with one key.
C6_OneVariant ==
    /\ is_some(converted) => OneVariant(unwrap(converted))
    /\ is_some(compound.boolean) =>
           \A x \in Held(unwrap(compound.boolean)) : OneVariant(x)

\* A converted Query, and a CompoundQuery that two push calls have filled
C6_Witness ==
    /\ is_some(converted)
    /\ Inhabited(unwrap(converted)) = {"nested"}
    /\ pushed = 2
    /\ Len(unwrap(compound.boolean).filter) = 2
    /\ Inhabited(unwrap(filter)) = {"terms"}

\* C9: push on a CompoundQuery without a bool query creates one whose
\* filter is the pushed query alone and whose must, should and must_not are
\* empty; push on one with a bool query appends the pushed query to its
\* filter and changes nothing else.
C9_PushIntoFilter ==
    [][pushed' = pushed + 1 =>
        LET x == unwrap(filter') IN
        IF compound.boolean = None
        THEN compound'.boolean =
                Some([must |-> <<>>, filter |-> <<x>>, should |-> <<>>,
                      must_not |-> <<>>, minimum_should_match |-> None,
                      boost |-> None])
        ELSE LET b == unwrap(compound.boolean) IN
             /\ compound'.boolean = Some([b EXCEPT !.filter = Append(b.filter, x)])
             /\ unwrap(compound'.boolean).must = b.must]_vars

\* Both cases have happened: a bool query created by a push and then
\* extended by a second one
C9_Witness ==
    /\ pushed = 2
    /\ is_some(compound.boolean)
    /\ unwrap(compound.boolean).must = <<>>
    /\ Len(unwrap(compound.boolean).filter) = 2
    /\ unwrap(compound.boolean).filter[2] = unwrap(filter)

\* ------------------------------------------------------------------------
\* Aggregation requests: the codec as a state machine
\* ------------------------------------------------------------------------

TAggregation == TCustom("Aggregation")

InitRequest ==
    /\ request = None
    /\ request_json = None
    /\ request_decoded = None
    /\ AggIdle /\ QueryIdle /\ PushIdle
    /\ KeyIdle /\ SortIdle /\ SortedIdle /\ LeafIdle /\ EmptyIdle

\* A request tree is built
Build ==
    /\ request = None
    /\ \E a \in Requests(MaxAggs) : request' = Some(a)
    /\ UNCHANGED <<request_json, request_decoded>>
    /\ UNCHANGED <<aggVars, queryVars, pushVars,
                 keyVars, sortVars, sortedVars, leafVars, emptyVars>>

\* serde_json::to_string(&agg) or serde_json::to_value(&agg)
SerializeRequest ==
    /\ is_some(request)
    /\ request_json = None
    /\ \E h \in HashOrders, target \in {"to_string", "to_value"} :
        LET written == serialize(TAggregation, unwrap(request), h) IN
        request_json' = Some(IF target = "to_value" THEN to_value(written) ELSE written)
    /\ UNCHANGED <<request, request_decoded>>
    /\ UNCHANGED <<aggVars, queryVars, pushVars,
                 keyVars, sortVars, sortedVars, leafVars, emptyVars>>

\* serde_json::from_str::<Aggregation> or serde_json::from_value::<Aggregation>
DeserializeRequest ==
    /\ is_some(request_json)
    /\ request_decoded = None
    /\ LET r == deserialize(TAggregation, unwrap(request_json)) IN
       IF is_ok(r)
       THEN \E t \in Shuffles(r[2]) : request_decoded' = Some(Ok(t))
       ELSE request_decoded' = Some(Err)
    /\ UNCHANGED <<request, request_json>>
    /\ UNCHANGED <<aggVars, queryVars, pushVars,
                 keyVars, sortVars, sortedVars, leafVars, emptyVars>>

NextRequest == Build \/ SerializeRequest \/ DeserializeRequest

SpecRequest == InitRequest /\ [][NextRequest]_vars

\* The request has been written and read back
RequestReadBack == is_some(request_decoded)

\* The decoded tree is the original once the children of every node are
\* sorted by name
SameSorted ==
    /\ is_ok(unwrap(request_decoded))
    /\ Sorted(unwrap(request_decoded)[2]) = Sorted(unwrap(request))

\* No two children of a node have the same name, at any depth
RECURSIVE DistinctSiblingNames(_)
DistinctSiblingNames(agg) ==
    agg.aggregations = None \/
    LET aggs == unwrap(agg.aggregations) IN
    /\ \A i, k \in DOMAIN aggs : aggs[i].name = aggs[k].name => i = k
    /\ \A i \in DOMAIN aggs : DistinctSiblingNames(aggs[i])

\* What the nodes define is free of what JSON and the query codec do not
\* carry: a `missing` that is NaN or infinite, and a filter that holds a
\* number that is NaN or infinite or a TermsQuery on a field named "boost"
RECURSIVE PayloadsPlain(_)
PayloadsPlain(agg) ==
    /\ \A f \in {"avg", "sum"} : is_some(agg[f]) => FloatOk(unwrap(agg[f]).missing)
    /\ (is_some(agg.filters) /\ is_some(unwrap(agg.filters).boolean))
          => BooleanPlain(unwrap(unwrap(agg.filters).boolean))
    /\ agg.aggregations = None \/
           \A i \in DOMAIN unwrap(agg.aggregations) :
               PayloadsPlain(unwrap(agg.aggregations)[i])

\* C8 as stated: for every Aggregation request tree (any depth, any number
\* and any names of children per node), decoding its encoding yields a tree
\* equal to the original once the children of every node are sorted by name.
C8_AsStated == RequestReadBack => SameSorted

\* A request with a filter on the field "boost" is written, and is not read
\* back
C8_FilterOnBoostFails ==
    /\ RequestReadBack
    /\ unwrap(request).filters = Some(FilterOnBoost)
    /\ unwrap(request).aggregations = None
    /\ ~is_ok(unwrap(request_decoded))

\* What holds of the round trip: decoding the encoding of an Aggregation
\* request tree yields a tree equal to the original once the children of
\* every node are sorted by name, for every tree in which the children of a node have distinct names
\* and no node defines a NaN or infinite number or a TermsQuery on a field
\* named "boost".
C8_RoundTripSorted ==
    (/\ RequestReadBack
     /\ DistinctSiblingNames(unwrap(request))
     /\ PayloadsPlain(unwrap(request)))
        => SameSorted

\* A node with the children "b" and "a", which come back as "a" and "b"
C8_Witness ==
    /\ RequestReadBack
    /\ is_ok(unwrap(request_decoded))
    /\ PayloadsPlain(unwrap(request))
    /\ is_some(unwrap(request).aggregations)
    /\ LET sent == unwrap(unwrap(request).aggregations)
           got == unwrap(unwrap(request_decoded)[2].aggregations)
       IN  /\ Len(sent) = 2 /\ sent[1].name = "b" /\ sent[2].name = "a"
           /\ is_some(sent[1].metadata)
           /\ got = <<sent[2], sent[1]>>

\* Two children of one name, of which one comes back
C8_SameNameCollapses ==
    /\ RequestReadBack
    /\ is_ok(unwrap(request_decoded))
    /\ PayloadsPlain(unwrap(request))
    /\ is_some(unwrap(request).aggregations)
    /\ Len(unwrap(unwrap(request).aggregations)) = 2
    /\ Len(unwrap(unwrap(request_decoded)[2].aggregations)) = 1

\* ------------------------------------------------------------------------
\* Response keys: split_ty_and_name as a state machine
\* ------------------------------------------------------------------------

\* The largest number of '#'-separated parts of a response key
MaxParts == 3

\* The parts the keys are made of: the empty part, names, tags in lower and
\* upper case, tags of kinds a request can name and tags it cannot
KeyParts ==
    { <<>>,
      <<"x">>,
      <<"a","v","g">>,
      <<"A","V","G">>,
      <<"s","u","m">>,
      <<"t","e","r","m","s">>,
      <<"s","t","e","r","m","s">>,
      <<"h","i","s","t","o","g","r","a","m">>,
      <<"n","o","p","e">> }

\* The keys of n parts
RECURSIVE KeysOfParts(_)
KeysOfParts(n) ==
    IF n = 1
    THEN KeyParts
    ELSE {k \o <<"#">> \o p : k \in KeysOfParts(n - 1), p \in KeyParts}

KeysUpTo(max) == UNION {KeysOfParts(n) : n \in 1..max}

InitKey ==
    /\ key_input = None
    /\ key_split = None
    /\ AggIdle /\ QueryIdle /\ PushIdle /\ RequestIdle
    /\ SortIdle /\ SortedIdle /\ LeafIdle /\ EmptyIdle

\* A node of a response is reached under some key
ReceiveKey ==
    /\ key_input = None
    /\ \E k \in KeysUpTo(MaxParts) : key_input' = Some(k)
    /\ UNCHANGED key_split
    /\ UNCHANGED <<aggVars, queryVars, pushVars, requestVars,
                 sortVars, sortedVars, leafVars, emptyVars>>

\* let (ty, name) = split_ty_and_name(ty_and_name)
SplitTyAndName ==
    /\ is_some(key_input)
    /\ key_split = None
    /\ key_split' = Some(split_ty_and_name(unwrap(key_input)))
    /\ UNCHANGED key_input
    /\ UNCHANGED <<aggVars, queryVars, pushVars, requestVars,
                 sortVars, sortedVars, leafVars, emptyVars>>

NextKey == ReceiveKey \/ SplitTyAndName

SpecKey == InitKey /\ [][NextKey]_vars

\* ------------------------------------------------------------------------
\* Response keys: properties
\* ------------------------------------------------------------------------

\* The positions of '#' in a key
Hashes(k) == {i \in DOMAIN k : k[i] = "#"}

NotHash(c) == c /= "#"

\* What follows the first '#' of a key, its further '#' taken out
AfterTag(k) ==
    LET i == CHOOSE j \in Hashes(k) : \A h \in Hashes(k) : j <= h
    IN  SelectSeq(SubSeq(k, i + 1, Len(k)), NotHash)

\* What precedes the first '#' of a key
TagOf(k) ==
    LET i == CHOOSE j \in Hashes(k) : \A h \in Hashes(k) : j <= h
    IN  SubSeq(k, 1, i - 1)

\* C11: the name of a key without '#' is the whole key; the name of a key
\* with '#' is what follows the type tag, the parts after it concatenated
\* with nothing between them.
C11_NameAfterTag ==
    is_some(key_split) =>
        LET k == unwrap(key_input) IN
        unwrap(key_split).name = IF Hashes(k) = {} THEN k ELSE AfterTag(k)

\* A key of three parts has been split: both parts after the tag are in the name
C11_Witness ==
    /\ is_some(key_split)
    /\ unwrap(key_input) = <<"a","v","g","#","x","#","s","u","m">>
    /\ unwrap(key_split).name = <<"x","s","u","m">>

\* The kinds of SubAggregation among the parts of the keys, each with the
\* type named after it
EnumeratedKinds ==
    { << <<"a","v","g">>, "Avg" >>,
      << <<"s","u","m">>, "Sum" >>,
      << <<"t","e","r","m","s">>, "Terms" >>,
      << <<"h","i","s","t","o","g","r","a","m">>, "Histogram" >> }

\* C12, as stated: the type is that of the kind when the first part of a key
\* with '#' is one of the kinds a request can name, and Unknown otherwise.
C12_AsStated ==
    is_some(key_split) =>
        LET k == unwrap(key_input)
            ty == unwrap(key_split).ty
        IN  IF Hashes(k) /= {} /\ \E e \in EnumeratedKinds : e[1] = TagOf(k)
            THEN \E e \in EnumeratedKinds : e[1] = TagOf(k) /\ ty = e[2]
            ELSE ty = "Unknown"

\* The tag of a kind a request can name has been read as Unknown
C12_HistogramUnknown ==
    /\ is_some(key_split)
    /\ unwrap(key_input) = <<"h","i","s","t","o","g","r","a","m","#","x">>
    /\ unwrap(key_split).ty = "Unknown"

\* What holds of the type: no key fails to split; the type is Unknown for a
\* key without '#', and otherwise what From<&str> makes of the tag, which
\* reads the tag without regard to case.
C12_TyFromTag ==
    is_some(key_split) =>
        LET k == unwrap(key_input)
            ty == unwrap(key_split).ty
        IN  IF Hashes(k) = {}
            THEN ty = "Unknown"
            ELSE ty = TyFrom(TagOf(k))

\* ------------------------------------------------------------------------
\* Queries keyed by their field: the codec as a state machine
\* ------------------------------------------------------------------------

\* The queries whose Serialize and Deserialize are written by hand
LeafTypes ==
    {"TermQuery", "TermsQuery", "RangeQuery", "RegexpQuery", "PrefixQuery",
     "MatchQuery"}

LeafValues(ty) ==
    CASE ty = "TermQuery" -> TermQueries
      [] ty = "TermsQuery" -> TermsQueries
      [] ty = "RangeQuery" -> RangeQueries
      [] ty = "RegexpQuery" -> RegexpQueries
      [] ty = "PrefixQuery" -> PrefixQueries
      [] ty = "MatchQuery" -> MatchQueries

\* JSON a client may send in the place of such a query, with the type it is
\* read as
LeafJsonInputs ==
    LET one(f, inner) == JObj(<< <<f, inner>> >>) IN
    { <<"RangeQuery", one("f", JObj(<<>>))>>,
      <<"RangeQuery", one("f", JObj(<< <<"boost", JNum(2)>> >>))>>,
      <<"RangeQuery", one("f", JObj(<< <<"time_zone", JStr("s")>> >>))>>,
      <<"RangeQuery", one("f", JObj(<< <<"gte", JStr("s")>> >>))>>,
      <<"RangeQuery", one("f", JObj(<< <<"gt", JNum(1)>> >>))>>,
      <<"RangeQuery", one("f", JStr("missing"))>>,
      <<"RangeQuery", one("f", Null)>>,
      <<"RangeQuery", JObj(<<>>)>>,
      <<"PrefixQuery", one("f", JObj(<< <<"value", JStr("v")>> >>))>>,
      <<"PrefixQuery", one("f", JObj(<<>>))>>,
      <<"TermQuery", one("f", JObj(<<>>))>> }

InitLeaf ==
    /\ leaf = None
    /\ leaf_json = None
    /\ leaf_decoded = None
    /\ AggIdle /\ QueryIdle /\ PushIdle /\ RequestIdle
    /\ KeyIdle /\ SortIdle /\ SortedIdle /\ EmptyIdle

\* A query is built: `TermQuery { field: .., value: .., boost: .. }`
ConstructLeaf ==
    /\ leaf = None
    /\ leaf_json = None
    /\ \E ty \in LeafTypes : \E v \in LeafValues(ty) : leaf' = Some(<<ty, v>>)
    /\ UNCHANGED <<leaf_json, leaf_decoded>>
    /\ UNCHANGED <<aggVars, queryVars, pushVars, requestVars, keyVars, sortVars,
                   sortedVars, emptyVars>>

\* serde_json::to_string(&query) or serde_json::to_value(&query)
SerializeLeaf ==
    /\ is_some(leaf)
    /\ leaf_json = None
    /\ \E h \in HashOrders, target \in {"to_string", "to_value"} :
        LET ty == unwrap(leaf)[1]
            written == serialize(TCustom(ty), unwrap(leaf)[2], h)
        IN  leaf_json' =
                Some(<<ty, IF target = "to_value" THEN to_value(written) ELSE written>>)
    /\ UNCHANGED <<leaf, leaf_decoded>>
    /\ UNCHANGED <<aggVars, queryVars, pushVars, requestVars, keyVars, sortVars,
                   sortedVars, emptyVars>>

\* A JSON object arrives from a client
ReceiveLeaf ==
    /\ leaf = None
    /\ leaf_json = None
    /\ \E j \in LeafJsonInputs : leaf_json' = Some(j)
    /\ UNCHANGED <<leaf, leaf_decoded>>
    /\ UNCHANGED <<aggVars, queryVars, pushVars, requestVars, keyVars, sortVars,
                   sortedVars, emptyVars>>

\* serde_json::from_str::<RangeQuery>(..) or from_value, and so on
DeserializeLeaf ==
    /\ is_some(leaf_json)
    /\ leaf_decoded = None
    /\ leaf_decoded' =
          Some(deserialize(TCustom(unwrap(leaf_json)[1]), unwrap(leaf_json)[2]))
    /\ UNCHANGED <<leaf, leaf_json>>
    /\ UNCHANGED <<aggVars, queryVars, pushVars, requestVars, keyVars, sortVars,
                   sortedVars, emptyVars>>

NextLeaf == ConstructLeaf \/ SerializeLeaf \/ ReceiveLeaf \/ DeserializeLeaf

SpecLeaf == InitLeaf /\ [][NextLeaf]_vars

\* ------------------------------------------------------------------------
\* Queries keyed by their field: properties
\* ------------------------------------------------------------------------

\* The keys of a JSON object
KeysOf(j) == {j[2][i][1] : i \in DOMAIN j[2]}

\* The keys of the bounds of a range
BoundKeys == {"gt", "gte", "lt", "lte"}

\* The JSON is an object of one key over an object without any bound
NoBound(j) ==
    /\ j[1] = "obj"
    /\ Len(j[2]) = 1
    /\ j[2][1][2][1] = "obj"
    /\ KeysOf(j[2][1][2]) \cap BoundKeys = {}

\* C13, as stated: reading as a RangeQuery an object whose inner object has
\* none of gt, gte, lt, lte is an error.
C13_AsStated ==
    (/\ is_some(leaf_decoded)
     /\ unwrap(leaf_json)[1] = "RangeQuery"
     /\ NoBound(unwrap(leaf_json)[2]))
        => ~is_ok(unwrap(leaf_decoded))

\* `{"f": {"boost": 2}}` arrives and is read as a RangeQuery without bounds
C13_OnlyBoostDecodes ==
    /\ leaf = None
    /\ leaf_json = Some(<<"RangeQuery",
                          JObj(<< <<"f", JObj(<< <<"boost", JNum(2)>> >>)>> >>)>>)
    /\ leaf_decoded =
          Some(Ok([field |-> "f", greater_than |-> None,
                   greater_than_or_equal_to |-> None, less_than |-> None,
                   less_than_or_equal_to |-> None, time_zone |-> None,
                   boost |-> Some(Finite(2))]))

\* A query has been written
LeafWritten == is_some(leaf) /\ is_some(leaf_json)

\* C14, as stated: the object written for a query of the six types has
\* exactly one key, the field of the query.
C14_AsStated ==
    LeafWritten =>
        LET entries == unwrap(leaf_json)[2][2] IN
        /\ Len(entries) = 1
        /\ entries[1][1] = unwrap(leaf)[2].field

\* C14: the object written for a TermQuery, RangeQuery, RegexpQuery,
\* PrefixQuery or MatchQuery, and for a TermsQuery without boost, has exactly
\* one key, the field of the query; the keys of the object written for a
\* TermsQuery with a boost are its field and "boost".
C14_KeysOfLeaf ==
    LeafWritten =>
        LET ty == unwrap(leaf)[1]
            v == unwrap(leaf)[2]
            j == unwrap(leaf_json)[2]
        IN  IF ty = "TermsQuery" /\ is_some(v.boost)
            THEN KeysOf(j) = {v.field, "boost"}
            ELSE Len(j[2]) = 1 /\ j[2][1][1] = v.field

\* A TermsQuery with a boost has been written: its object has two keys
C14_Witness ==
    /\ LeafWritten
    /\ unwrap(leaf)[1] = "TermsQuery"
    /\ unwrap(leaf)[2].field = "f"
    /\ is_some(unwrap(leaf)[2].boost)
    /\ Len(unwrap(leaf_json)[2][2]) = 2

\* ------------------------------------------------------------------------
\* Sort: the codec as a state machine
\* ------------------------------------------------------------------------

\* The fields sorted by: the empty one, the default, the three the
\* serializer renames, those three as it writes them, and two more with '_'
SortFields ==
    { <<>>,
      <<"i","d">>,
      <<"s","c","o","r","e">>,
      <<"k","e","y">>,
      <<"c","o","u","n","t">>,
      <<"_","s","c","o","r","e">>,
      <<"_","k","e","y">>,
      <<"_","c","o","u","n","t">>,
      <<"_">>,
      <<"x","_">> }

Sorts ==
    {[field |-> f, order |-> o, mode |-> m] :
        f \in SortFields,
        o \in {None} \cup {Some(x) : x \in SortOrders},
        m \in {None} \cup {Some(x) : x \in SortModes}}

TSort == TCustom("Sort")

InitSort ==
    /\ sort_value = None
    /\ sort_json = None
    /\ sort_decoded = None
    /\ AggIdle /\ QueryIdle /\ PushIdle /\ RequestIdle
    /\ KeyIdle /\ SortedIdle /\ LeafIdle /\ EmptyIdle

\* A Sort is built: `Sort { field: .., order: .., mode: .. }`
ConstructSort ==
    /\ sort_value = None
    /\ \E x \in Sorts : sort_value' = Some(x)
    /\ UNCHANGED <<sort_json, sort_decoded>>
    /\ UNCHANGED <<aggVars, queryVars, pushVars, requestVars, keyVars, sortedVars,
                   leafVars, emptyVars>>

\* serde_json::to_string(&sort) or serde_json::to_value(&sort)
SerializeSort ==
    /\ is_some(sort_value)
    /\ sort_json = None
    /\ \E target \in {"to_string", "to_value"} :
        LET written == serialize(TSort, unwrap(sort_value), "insertion") IN
        sort_json' = Some(IF target = "to_value" THEN to_value(written) ELSE written)
    /\ UNCHANGED <<sort_value, sort_decoded>>
    /\ UNCHANGED <<aggVars, queryVars, pushVars, requestVars, keyVars, sortedVars,
                   leafVars, emptyVars>>

\* serde_json::from_str::<Sort> or serde_json::from_value::<Sort>
DeserializeSort ==
    /\ is_some(sort_json)
    /\ sort_decoded = None
    /\ sort_decoded' = Some(deserialize(TSort, unwrap(sort_json)))
    /\ UNCHANGED <<sort_value, sort_json>>
    /\ UNCHANGED <<aggVars, queryVars, pushVars, requestVars, keyVars, sortedVars,
                   leafVars, emptyVars>>

NextSort == ConstructSort \/ SerializeSort \/ DeserializeSort

SpecSort == InitSort /\ [][NextSort]_vars

\* ------------------------------------------------------------------------
\* Sort: properties
\* ------------------------------------------------------------------------

\* The object written under the one key of the JSON of a Sort
SortInner == unwrap(sort_json)[2][1][2]

\* C16: the inner object written for a Sort whose field does not begin with
\* '_' has unmapped_type "keyword"; the inner object written for a Sort whose
\* field begins with '_' has no unmapped_type.
C16_UnmappedType ==
    is_some(sort_json) =>
        LET field == unwrap(sort_value).field
            special == Len(field) > 0 /\ field[1] = "_"
            entries == SortInner[2]
        IN  /\ Len(unwrap(sort_json)[2]) = 1
            /\ SortInner[1] = "obj"
            /\ ~special =>
                  \E i \in DOMAIN entries :
                      entries[i] = <<"unmapped_type", JStr("keyword")>>
            /\ special =>
                  \A i \in DOMAIN entries : entries[i][1] /= "unmapped_type"

\* A Sort on `score` has been written with unmapped_type, under `_score`;
\* its field does not begin with '_'
C16_Witness ==
    /\ is_some(sort_json)
    /\ unwrap(sort_value).field = <<"s","c","o","r","e">>
    /\ unwrap(sort_json)[2][1][1] = <<"_","s","c","o","r","e">>
    /\ \E i \in DOMAIN SortInner[2] : SortInner[2][i][1] = "unmapped_type"

\* C17, as stated: reading what was written for a Sort gives that Sort.
C17_AsStated ==
    is_some(sort_decoded) => unwrap(sort_decoded) = Ok(unwrap(sort_value))

\* The three fields the serializer writes under another key
Renamed == {<<"s","c","o","r","e">>, <<"k","e","y">>, <<"c","o","u","n","t">>}

\* C17: reading what was written for a Sort gives that Sort, unless its
\* field is score, key or count: then it gives that Sort with '_' put
\* before the field.
C17_RoundTripButRenamed ==
    is_some(sort_decoded) =>
        LET s == unwrap(sort_value) IN
        unwrap(sort_decoded) =
            Ok(IF s.field \in Renamed
               THEN [s EXCEPT !.field = <<"_">> \o s.field]
               ELSE s)

\* A Sort on `score` with an order and a mode has come back as one on `_score`
C17_Witness ==
    /\ is_some(sort_decoded)
    /\ unwrap(sort_value) =
          [field |-> <<"s","c","o","r","e">>, order |-> Some("Desc"), mode |-> Some("Max")]
    /\ unwrap(sort_decoded) =
          Ok([field |-> <<"_","s","c","o","r","e">>, order |-> Some("Desc"),
              mode |-> Some("Max")])

\* ------------------------------------------------------------------------
\* is_empty: the calls as a state machine
\* ------------------------------------------------------------------------

\* BooleanQuery::is_empty, had it looked only at the list push appends to
BooleanQuery_is_empty_filter(b) == b.filter = <<>>

\* BooleanQuery::is_empty
BooleanQuery_is_empty(b) ==
    /\ b.must = <<>>
    /\ b.filter = <<>>
    /\ b.should = <<>>
    /\ b.must_not = <<>>

\* CompoundQuery::is_empty
CompoundQuery_is_empty(c) ==
    IF is_some(c.boolean) THEN BooleanQuery_is_empty(unwrap(c.boolean)) ELSE TRUE

InitEmpty ==
    /\ empty_of = None
    /\ empty_result = None
    /\ AggIdle /\ QueryIdle /\ PushIdle /\ RequestIdle
    /\ KeyIdle /\ SortIdle /\ SortedIdle /\ LeafIdle

\* A BooleanQuery is built, its fields being public
ConstructBoolean ==
    /\ empty_of = None
    /\ \E b \in BooleanQueries(MaxClauses) : empty_of' = Some(<<"BooleanQuery", b>>)
    /\ UNCHANGED empty_result
    /\ UNCHANGED <<aggVars, queryVars, pushVars, requestVars, keyVars, sortVars,
                   sortedVars, leafVars>>

\* A CompoundQuery is built
ConstructCompound ==
    /\ empty_of = None
    /\ \E c \in CompoundQueries(MaxClauses) : empty_of' = Some(<<"CompoundQuery", c>>)
    /\ UNCHANGED empty_result
    /\ UNCHANGED <<aggVars, queryVars, pushVars, requestVars, keyVars, sortVars,
                   sortedVars, leafVars>>

\* boolean.is_empty()
BooleanIsEmpty ==
    /\ is_some(empty_of)
    /\ unwrap(empty_of)[1] = "BooleanQuery"
    /\ empty_result = None
    /\ empty_result' = Some(BooleanQuery_is_empty(unwrap(empty_of)[2]))
    /\ UNCHANGED empty_of
    /\ UNCHANGED <<aggVars, queryVars, pushVars, requestVars, keyVars, sortVars,
                   sortedVars, leafVars>>

\* compound.is_empty()
CompoundIsEmpty ==
    /\ is_some(empty_of)
    /\ unwrap(empty_of)[1] = "CompoundQuery"
    /\ empty_result = None
    /\ empty_result' = Some(CompoundQuery_is_empty(unwrap(empty_of)[2]))
    /\ UNCHANGED empty_of
    /\ UNCHANGED <<aggVars, queryVars, pushVars, requestVars, keyVars, sortVars,
                   sortedVars, leafVars>>

NextEmpty == ConstructBoolean \/ ConstructCompound \/ BooleanIsEmpty \/ CompoundIsEmpty

SpecEmpty == InitEmpty /\ [][NextEmpty]_vars

\* ------------------------------------------------------------------------
\* is_empty: properties
\* ------------------------------------------------------------------------

\* The number of clauses in the four lists of a BooleanQuery
Clauses(b) == Len(b.must) + Len(b.filter) + Len(b.should) + Len(b.must_not)

\* C18: BooleanQuery::is_empty returns true exactly when the four lists
\* are empty, whatever minimum_should_match and boost are; and
\* CompoundQuery::is_empty returns true exactly when there is no BooleanQuery
\* or the four lists of the one there is are empty.
C18_IsEmpty ==
    is_some(empty_result) =>
        LET x == unwrap(empty_of)[2] IN
        IF unwrap(empty_of)[1] = "BooleanQuery"
        THEN unwrap(empty_result) <=> Clauses(x) = 0
        ELSE unwrap(empty_result) <=>
                (x.boolean = None \/ Clauses(unwrap(x.boolean)) = 0)

\* is_empty has returned true for a BooleanQuery without clauses that has a
\* minimum_should_match and a boost
C18_Witness ==
    /\ empty_result = Some(TRUE)
    /\ unwrap(empty_of)[1] = "BooleanQuery"
    /\ is_some(unwrap(empty_of)[2].minimum_should_match)
    /\ is_some(unwrap(empty_of)[2].boost)

\* is_empty has returned false for a CompoundQuery with one clause, in must_not
C18_NotEmpty ==
    /\ empty_result = Some(FALSE)
    /\ unwrap(empty_of)[1] = "CompoundQuery"
    /\ Len(unwrap(unwrap(empty_of)[2].boolean).must_not) = 1
    /\ Clauses(unwrap(unwrap(empty_of)[2].boolean)) = 1

\* ------------------------------------------------------------------------
\* Aggregation response: the top-level object
\* ------------------------------------------------------------------------

\* The decoder has been handed a response without `aggregations` or `aggs`
DecodedWithoutKey == top = None /\ pc /= "receive"

\* C19, as stated: decoding a response whose top-level object has no
\* aggregations key is an error and yields no result list.
C19_AsStated == DecodedWithoutKey => (pc = "error" /\ response = None)

\* C19: decoding a response whose top-level object has neither an
\* `aggregations` nor an `aggs` entry is no error, and the result list it
\* yields is empty.
C19_NoKeyEmptyList ==
    DecodedWithoutKey =>
        /\ pc /= "error"
        /\ tree = <<>>
        /\ is_some(response) => unwrap(response) = <<>>

\* Such a response has been converted: the result list is there, and empty
C19_Witness ==
    /\ top = None
    /\ pc = "done"
    /\ response = Some(<<>>)

\* A response whose `aggregations` entry holds null has been refused
C19_NullRefused ==
    /\ top = Some("null")
    /\ pc = "error"

\* ------------------------------------------------------------------------
\* SortedValue: the two parsers
\* ------------------------------------------------------------------------

\* The largest magnitude of the numbers handed to the parsers
MaxMagnitude == 6

\* An f64, held as a sign and a count of halves: -0.0 is the negative float
\* of no halves
F64(neg, halves) == [neg |-> neg, halves |-> halves]

\* serde_json::Number: a u64, a negative i64 or an f64
PosInt(n) == <<"PosInt", n>>

NegInt(n) == <<"NegInt", n>>

Float(f) == <<"Float", f>>

Numbers ==
    {PosInt(n) : n \in 0..MaxMagnitude}
        \cup {NegInt(0 - n) : n \in 1..MaxMagnitude}
        \cup {Float(F64(neg, h)) : neg \in BOOLEAN, h \in 0..(2 * MaxMagnitude)}

\* Number::as_u64
as_u64(num) == IF num[1] = "PosInt" THEN Some(num[2]) ELSE None

\* Number::as_f64
as_f64(num) ==
    CASE num[1] = "PosInt" -> Some(F64(FALSE, 2 * num[2]))
      [] num[1] = "NegInt" -> Some(F64(TRUE, 2 * (0 - num[2])))
      [] num[1] = "Float" -> Some(num[2])

\* v < 0.0
lt_zero(v) == v.neg /\ v.halves > 0

\* async_graphql::Value, and the JSON values among them
GraphQLValues ==
    {<<"Null">>, <<"String", "x">>, <<"String", "-1">>, <<"Boolean", TRUE>>,
     <<"Enum", "E">>, <<"List">>, <<"Object">>}
        \cup {<<"Number", num>> : num \in Numbers}

JsonValues == {v \in GraphQLValues : v[1] /= "Enum"}

\* <SortedValue as ScalarType>::parse
SortedValue_parse(value) ==
    CASE value[1] = "Null" -> Ok(<<"Null">>)
      [] value[1] = "Number" ->
            IF is_some(as_u64(value[2]))
            THEN Ok(<<"Int", unwrap(as_u64(value[2]))>>)
            ELSE IF is_some(as_f64(value[2]))
            THEN IF lt_zero(unwrap(as_f64(value[2])))
                 THEN Err
                 ELSE Ok(<<"Float", unwrap(as_f64(value[2]))>>)
            ELSE Err
      [] value[1] = "String" -> Ok(<<"String", value[2]>>)
      [] OTHER -> Err

\* The derived Deserialize of the untagged enum: the first of Null, Int(u64),
\* Float(f64), String(String) that reads the value. A u64 reads no negative
\* integer and no float; an f64 reads every number.
SortedValue_deserialize(value) ==
    CASE value[1] = "Null" -> Ok(<<"Null">>)
      [] value[1] = "Number" ->
            IF value[2][1] = "PosInt"
            THEN Ok(<<"Int", value[2][2]>>)
            ELSE Ok(<<"Float", unwrap(as_f64(value[2]))>>)
      [] value[1] = "String" -> Ok(<<"String", value[2]>>)
      [] OTHER -> Err

InitSorted ==
    /\ sorted_input = None
    /\ sorted_path = ""
    /\ sorted_parsed = None
    /\ AggIdle /\ QueryIdle /\ PushIdle /\ RequestIdle
    /\ KeyIdle /\ SortIdle /\ LeafIdle /\ EmptyIdle

\* A GraphQL argument arrives for a SortedValue
ReceiveGraphQL ==
    /\ sorted_input = None
    /\ \E v \in GraphQLValues : sorted_input' = Some(v)
    /\ sorted_path' = "parse"
    /\ UNCHANGED sorted_parsed
    /\ UNCHANGED <<aggVars, queryVars, pushVars, requestVars, keyVars, sortVars,
                   leafVars, emptyVars>>

\* A JSON value arrives for a SortedValue
ReceiveJson ==
    /\ sorted_input = None
    /\ \E v \in JsonValues : sorted_input' = Some(v)
    /\ sorted_path' = "deserialize"
    /\ UNCHANGED sorted_parsed
    /\ UNCHANGED <<aggVars, queryVars, pushVars, requestVars, keyVars, sortVars,
                   leafVars, emptyVars>>

\* SortedValue::parse(value)
Parse ==
    /\ sorted_path = "parse"
    /\ sorted_parsed = None
    /\ sorted_parsed' = Some(SortedValue_parse(unwrap(sorted_input)))
    /\ UNCHANGED <<sorted_input, sorted_path>>
    /\ UNCHANGED <<aggVars, queryVars, pushVars, requestVars, keyVars, sortVars,
                   leafVars, emptyVars>>

\* serde_json::from_str::<SortedValue> or serde_json::from_value::<SortedValue>
DeserializeSortedValue ==
    /\ sorted_path = "deserialize"
    /\ sorted_parsed = None
    /\ sorted_parsed' = Some(SortedValue_deserialize(unwrap(sorted_input)))
    /\ UNCHANGED <<sorted_input, sorted_path>>
    /\ UNCHANGED <<aggVars, queryVars, pushVars, requestVars, keyVars, sortVars,
                   leafVars, emptyVars>>

NextSorted == ReceiveGraphQL \/ ReceiveJson \/ Parse \/ DeserializeSortedValue

SpecSorted == InitSorted /\ [][NextSorted]_vars

\* ------------------------------------------------------------------------
\* SortedValue: properties
\* ------------------------------------------------------------------------

\* The value is a number below zero: a negative integer, or a negative
\* float other than -0.0
Negative(value) ==
    /\ value[1] = "Number"
    /\ \/ value[2][1] = "NegInt"
       \/ value[2][1] = "Float" /\ value[2][2].neg /\ value[2][2].halves > 0

\* C20, as stated: every parser of SortedValue refuses every negative
\* number, integer or float.
C20_AsStated ==
    (is_some(sorted_parsed) /\ Negative(unwrap(sorted_input)))
        => ~is_ok(unwrap(sorted_parsed))

\* The JSON number -1 has been read as SortedValue::Float(-1.0)
C20_NegativeDeserialized ==
    /\ sorted_path = "deserialize"
    /\ sorted_input = Some(<<"Number", NegInt(0 - 1)>>)
    /\ sorted_parsed = Some(Ok(<<"Float", F64(TRUE, 2)>>))

\* What holds of negative numbers: ScalarType::parse refuses each of them.
C20_ParseRefuses ==
    (sorted_path = "parse" /\ is_some(sorted_parsed) /\ Negative(unwrap(sorted_input)))
        => ~is_ok(unwrap(sorted_parsed))

\* ScalarType::parse has refused a negative integer and a negative float
C20_ParseWitness ==
    /\ sorted_path = "parse"
    /\ sorted_parsed = Some(Err)
    /\ sorted_input \in {Some(<<"Number", NegInt(0 - 1)>>),
                         Some(<<"Number", Float(F64(TRUE, 1))>>)}

\* ------------------------------------------------------------------------
\* Aggregation response: responses nested several levels deep
\* ------------------------------------------------------------------------

\* The largest number of JSON objects below the `aggregations` object of a
\* deeply nested response
MaxDeep == 5

\* The aggregations of a nested response: a bucketing aggregation and a
\* metric, each of which may hold sub-aggregations
NestAggProfiles ==
    { [raw |-> KeyW, members |-> <<MSumOther>>],
      [raw |-> KeyAvgX, members |-> <<MValue>>] }

\* Its buckets: keyed by a string, by another string, or by a number only
NestBucketProfiles ==
    { <<MKey("k1"), MDocCount>>,
      <<MKey("k2"), MDocCount>>,
      <<MKeyNumber, MDocCount>> }

InitNest ==
    /\ top = Some("object")
    /\ doc = <<>>
    /\ tree = <<>>
    /\ pending_aggs = <<>>
    /\ parent = None
    /\ todo = {}
    /\ results = EmptyResults
    /\ response = None
    /\ pc = "receive"
    /\ run = 1
    /\ first = None
    /\ QueryIdle /\ PushIdle /\ RequestIdle
    /\ KeyIdle /\ SortIdle /\ SortedIdle /\ LeafIdle /\ EmptyIdle

\* The next object below the aggregations of a nested response, MaxDeep
\* objects at most
ReceiveNested ==
    /\ pc = "receive"
    /\ Len(doc) < MaxDeep
    /\ \E r \in NodeChoicesFrom(NestAggProfiles, NestBucketProfiles, doc, Len(doc) + 1) :
          /\ WellFormed(Append(doc, r))
          /\ doc' = Append(doc, r)
    /\ UNCHANGED <<top, tree, pending_aggs, parent, todo, results, response, pc, run,
                   first>>
    /\ UNCHANGED <<queryVars, pushVars, requestVars,
                 keyVars, sortVars, sortedVars, leafVars, emptyVars>>

NextNest ==
    \/ ReceiveNested
    \/ Deserialize
    \/ WhilePop
    \/ ForEntry
    \/ IntoResponse

SpecNest == InitNest /\ [][NextNest]_vars

\* ------------------------------------------------------------------------
\* Aggregation response: properties of the parents of results
\* ------------------------------------------------------------------------

\* The key the document gives object n as text: its "key" member if that is
\* a string, or its "key_as_string" member, whichever the object lists last
KeptKey(n) ==
    LET ms == doc[n].members
        idx == {i \in DOMAIN ms :
                    \/ ms[i].k = "key" /\ ms[i].t = "String"
                    \/ ms[i].k = "key_as_string"}
    IN  IF idx = {}
        THEN None
        ELSE Some(ms[CHOOSE i \in idx : \A j \in idx : j <= i].s)

\* The key of the bucket that directly encloses node w, if a bucket does
EnclosingBucketKey(w) ==
    IF doc[w].up /= 0 /\ doc[doc[w].up].slot = "bucket"
    THEN KeptKey(doc[w].up)
    ELSE None

\* The objects handled in the loop iteration of aggregation c: c itself and
\* its buckets without sub-aggregations
FromEntry(c) ==
    {c} \cup {b \in DOMAIN doc :
                /\ doc[b].up = c
                /\ doc[b].slot = "bucket"
                /\ SubAggregations(doc, b) = {}}

\* The results that hold a number of object m
ResultsOf(m) ==
    {r \in Flattened : {ValueOf(m), DocOf(m)} \cap Range(r.values) /= {}}

\* c is a sub-aggregation of bucket b of the bucketing node w
WrappedBy(w, b, c) ==
    /\ doc[w].slot = "agg"
    /\ doc[b].slot = "bucket" /\ doc[b].up = w
    /\ doc[c].slot = "agg" /\ doc[c].up = b

\* C22: for every bucket b of a bucketing node w, every result produced from
\* the sub-aggregations of b has as parent the key of the bucket that
\* directly encloses w, and no parent when no bucket encloses w.
C22_ParentOfWrapper ==
    ConversionDone =>
        \A w, b, c \in DOMAIN doc :
            WrappedBy(w, b, c) =>
                \A m \in FromEntry(c) : \A r \in ResultsOf(m) :
                    r.parent = EnclosingBucketKey(w)

\* A bucketing node inside the bucket "k1", with a bucket "k2" whose metric
\* has its value in a result of parent "k1"
C22_Witness ==
    /\ ConversionDone
    /\ \E w, b, c \in DOMAIN doc :
           /\ WrappedBy(w, b, c)
           /\ EnclosingBucketKey(w) = Some("k1")
           /\ KeptKey(b) = Some("k2")
           /\ \E r \in Flattened :
                  ValueOf(c) \in Range(r.values) /\ r.parent = Some("k1")

\* c is a sub-aggregation of the aggregation node a itself
SubAggregationOf(a, c) ==
    /\ doc[a].slot = "agg"
    /\ doc[c].slot = "agg" /\ doc[c].up = a

\* C23: every result produced from an aggregation that is a sub-aggregation
\* of another aggregation node (not of one of its buckets) has no parent,
\* however deep in the response the two are.
C23_SubAggregationRerooted ==
    ConversionDone =>
        \A a, c \in DOMAIN doc :
            SubAggregationOf(a, c) =>
                \A m \in FromEntry(c) : \A r \in ResultsOf(m) : r.parent = None

\* An aggregation node inside the bucket "k1" whose sub-aggregation has its
\* value in a result without parent
C23_Witness ==
    /\ ConversionDone
    /\ \E a, c \in DOMAIN doc :
           /\ SubAggregationOf(a, c)
           /\ EnclosingBucketKey(a) = Some("k1")
           /\ \E r \in Flattened :
                  ValueOf(c) \in Range(r.values) /\ r.parent = None

\* ------------------------------------------------------------------------
\* Aggregation response: properties of the map of results
\* ------------------------------------------------------------------------

\* s is the beginning of t
IsPrefix(s, t) == Len(s) <= Len(t) /\ SubSeq(t, 1, Len(s)) = s

\* A step of the loop keeps every result it found, with its type and its
\* metadata, and only appends to its fields and values
ResultsKept ==
    \A k \in DOMAIN results :
        /\ k \in DOMAIN results'
        /\ results'[k].type_ = results[k].type_
        /\ results'[k].metadata = results[k].metadata
        /\ IsPrefix(results[k].fields, results'[k].fields)
        /\ IsPrefix(results[k].values, results'[k].values)

\* A result the step inserted has the type of the key of the entry handled
\* and the metadata of that entry or of one of its buckets
ResultsInserted ==
    \A k \in (DOMAIN results') \ (DOMAIN results) :
        \E n \in todo \ todo' :
            /\ k = <<parent, split_ty_and_name(doc[n].raw).name>>
            /\ results'[k].type_ = split_ty_and_name(doc[n].raw).ty
            /\ \E m \in FromEntry(n) : results'[k].metadata = tree[m].metadata

\* The list holds one result for each key of the map, under its own pair
OnePerPair ==
    /\ Len(unwrap(response)) = Cardinality(DOMAIN results)
    /\ \A k \in DOMAIN results :
           \E i \in DOMAIN unwrap(response) :
               /\ unwrap(response)[i] = results[k]
               /\ KeyOf(results[k]) = k

\* C24: the list holds at most one result for each (parent, name) pair;
\* every contribution of a pair is appended to the result of the pair, and
\* the type and the metadata of a result are those of its insertion, which
\* no later contribution changes.
C24_OneResultPerPair ==
    /\ [][(pc = "while" /\ pc' = "while") => (ResultsKept /\ ResultsInserted)]_vars
    /\ [](ConversionDone => OnePerPair)

\* Two aggregations of one name and different types, avg#X and SUM#X, side
\* by side: one result holds the values of both
C24_Witness ==
    /\ ConversionDone
    /\ \E n, m \in DOMAIN doc :
           /\ doc[n].up = doc[m].up
           /\ doc[n].raw = KeyAvgX /\ doc[m].raw = KeySumX
           /\ \E r \in Flattened :
                  /\ {ValueOf(n), ValueOf(m)} \subseteq Range(r.values)
                  /\ r.type_ = "Sum"
    /\ Cardinality({KeyOf(r) : r \in Flattened}) = Len(unwrap(response))

\* ------------------------------------------------------------------------
\* Aggregation response: properties of fields and values
\* ------------------------------------------------------------------------

\* The bucket key of object m: the key of the object enclosing it if m is a
\* sub-aggregation, or else its own key
BucketKeyOf(m) ==
    or_else(IF doc[m].slot = "agg" /\ doc[m].up /= 0 THEN KeptKey(doc[m].up) ELSE None,
            KeptKey(m))

\* The object whose number x is
ContributorOf(x) == CHOOSE m \in DOMAIN doc : x \in {ValueOf(m), DocOf(m)}

\* C25, as stated: in every result, for every index i below the length of
\* fields, values[i] is the number of the object whose bucket key is
\* fields[i].
C25_AsStated ==
    ConversionDone =>
        \A r \in Flattened : \A i \in DOMAIN r.fields :
            /\ i \in DOMAIN r.values
            /\ BucketKeyOf(ContributorOf(r.values[i])) = Some(r.fields[i])

\* A bucket keyed by a number only, followed by a bucket keyed "k1": the
\* result has the one field "k1", and its first value is that of the bucket
\* without a field
C25_Mispaired ==
    /\ ConversionDone
    /\ \E r \in Flattened :
           /\ r.fields = <<"k1">>
           /\ Len(r.values) = 2
           /\ BucketKeyOf(ContributorOf(r.values[1])) = None
           /\ BucketKeyOf(ContributorOf(r.values[2])) = Some("k1")

\* The positions of the values of r that come from an object with a bucket key
KeyedPositions(r) ==
    {i \in DOMAIN r.values : is_some(BucketKeyOf(ContributorOf(r.values[i])))}

\* What the code pairs: the fields of a result are the bucket keys of its
\* contributors that have one, in the order of their values
C25_KeyedInOrder ==
    ConversionDone =>
        \A r \in Flattened :
            /\ Len(r.fields) = Cardinality(KeyedPositions(r))
            /\ \A i \in KeyedPositions(r) :
                   r.fields[Cardinality({j \in KeyedPositions(r) : j <= i})]
                       = unwrap(BucketKeyOf(ContributorOf(r.values[i])))

\* ------------------------------------------------------------------------
\* Aggregation response: the walk to its end
\* ------------------------------------------------------------------------

\* The largest number of JSON objects below the `aggregations` object of a
\* response walked to the end
MaxWalk == 4

\* Its aggregations: a bucketing aggregation, a metric, and a metric whose
\* metadata has "_skip": true
WalkAggProfiles ==
    { [raw |-> KeyW, members |-> <<MSumOther>>],
      [raw |-> KeyAvgX, members |-> <<MValue>>],
      [raw |-> KeySumX, members |-> <<MMetadata(MetaSkipTrue), MValue>>] }

\* Its buckets: a key and a doc_count
WalkBucketProfiles == { <<MKey("k1"), MDocCount>> }

\* The next object below the aggregations of the response, MaxWalk objects
\* at most
ReceiveWalk ==
    /\ pc = "receive"
    /\ Len(doc) < MaxWalk
    /\ \E r \in NodeChoicesFrom(WalkAggProfiles, WalkBucketProfiles, doc, Len(doc) + 1) :
          /\ WellFormed(Append(doc, r))
          /\ doc' = Append(doc, r)
    /\ UNCHANGED <<top, tree, pending_aggs, parent, todo, results, response, pc, run,
                   first>>
    /\ UNCHANGED <<queryVars, pushVars, requestVars,
                 keyVars, sortVars, sortedVars, leafVars, emptyVars>>

NextWalk ==
    \/ ReceiveWalk
    \/ Deserialize
    \/ WhilePop
    \/ ForEntry
    \/ IntoResponse

\* A step of the loop of From::from, or the step that ends it
Walk == WhilePop \/ ForEntry \/ IntoResponse

\* From::from is one call that runs to its end: while a step of the loop is
\* due, one is taken
SpecWalk == InitNest /\ [][NextWalk]_vars /\ WF_vars(Walk)

\* The number of values of the results of a list
RECURSIVE CountValues(_)
CountValues(rs) ==
    IF rs = <<>> THEN 0 ELSE Len(Head(rs).values) + CountValues(Tail(rs))

TotalValues == CountValues(unwrap(response))

\* Object n carries an extractable value: a value, or a doc_count and no
\* bucket
Extractable(n) == is_some(SaidToContribute(n))

\* C26, as stated: when the walk has ended, the number of values of all
\* results is the number of aggregation nodes and buckets that carry an
\* extractable value and no "_skip": true.
C26_AsStated ==
    ConversionDone =>
        TotalValues = Cardinality({n \in DOMAIN doc : Extractable(n) /\ ~CarriesSkip(n)})

\* The objects the walk handles as leaves and that contribute
CountedLeaves ==
    {n \in DOMAIN doc : TreatedAsLeaf(n) /\ Extractable(n) /\ ~CarriesSkip(n)}

\* No two entries of the work list refer to the same map
NoMapTwice ==
    \A i, j \in DOMAIN pending_aggs :
        pending_aggs[i].aggs = pending_aggs[j].aggs => i = j

\* C26: the walk of every response ends; no map is on the work list twice;
\* and when the walk has ended, the number of values of all results is the
\* number of aggregation nodes and of buckets without sub-aggregations that
\* carry an extractable value and no "_skip": true, each of which has its
\* number in a result.
C26_WalkEndsAndCounts ==
    /\ (pc = "while") ~> (pc = "done")
    /\ [](NoMapTwice)
    /\ [](ConversionDone =>
            /\ TotalValues = Cardinality(CountedLeaves)
            /\ \A n \in CountedLeaves : unwrap(SaidToContribute(n)) \in Emitted)

\* The walk of a response has ended in which a bucket with a doc_count holds
\* a sub-aggregation and a metric carries "_skip": true
C26_Witness ==
    /\ ConversionDone
    /\ \E w, b, c \in DOMAIN doc :
           /\ WrappedBy(w, b, c)
           /\ Extractable(b) /\ ~CarriesSkip(b)
           /\ DocOf(b) \notin Emitted
    /\ \E n \in DOMAIN doc : CarriesSkip(n) /\ Extractable(n)
    /\ TotalValues = Cardinality(CountedLeaves)
    /\ TotalValues > 0

\* ------------------------------------------------------------------------
\* Aggregation response: _skip on a bucketing aggregation
\* ------------------------------------------------------------------------

\* b is a bucket without sub-aggregations of the aggregation node w, and
\* the metadata of w has "_skip": true
LeafBucketOfSkipped(w, b) ==
    /\ doc[w].slot = "agg"
    /\ CarriesSkip(w)
    /\ doc[b].slot = "bucket" /\ doc[b].up = w
    /\ SubAggregations(doc, b) = {}

\* C27, as stated: when the metadata of a bucketing aggregation node has
\* "_skip": true, none of its buckets without sub-aggregations gives a
\* result or a value under the name of the aggregation.
C27_AsStated ==
    ConversionDone =>
        \A w, b \in DOMAIN doc :
            LeafBucketOfSkipped(w, b) =>
                \A r \in Flattened :
                    r.name = split_ty_and_name(doc[w].raw).name =>
                        {ValueOf(b), DocOf(b)} \cap Range(r.values) = {}

\* A bucket of such a node, with no metadata of its own, has its doc_count
\* in a result named after the node
C27_BucketOfSkippedEmitted ==
    /\ ConversionDone
    /\ \E w, b \in DOMAIN doc :
           /\ LeafBucketOfSkipped(w, b)
           /\ ~HasMember(b, "meta") /\ ~HasMember(b, "metadata")
           /\ \E r \in Flattened :
                  /\ r.name = split_ty_and_name(doc[w].raw).name
                  /\ DocOf(b) \in Range(r.values)

\* What the code does: only the metadata of the bucket itself is looked at
C27_OwnMetadataOnly ==
    ConversionDone =>
        \A w, b \in DOMAIN doc :
            (LeafBucketOfSkipped(w, b) /\ HasMember(b, "doc_count")) =>
                (DocOf(b) \in Emitted <=> ~CarriesSkip(b))

\* ------------------------------------------------------------------------
\* Aggregation response: the keys of buckets
\* ------------------------------------------------------------------------

\* The decimal text of the number the buckets keyed by a number carry
NumberKeyText == "7"

\* The key of bucket b as text: the string the document gives, or else the
\* text of its number
KeyText(b) == IF is_some(KeptKey(b)) THEN unwrap(KeptKey(b)) ELSE NumberKeyText

\* b is a bucket with a key, handled as a leaf
KeyedLeafBucket(b) ==
    /\ doc[b].slot = "bucket"
    /\ SubAggregations(doc, b) = {}
    /\ HasMember(b, "key")

\* C28, as stated: every bucket that gives a value to a result gives its key
\* to the fields of that result, whether the key is a string, a number with
\* key_as_string, or a number without.
C28_AsStated ==
    ConversionDone =>
        \A b \in DOMAIN doc :
            KeyedLeafBucket(b) =>
                \A r \in ResultsOf(b) : KeyText(b) \in Range(r.fields)

\* A bucket keyed by a number, without key_as_string, has its doc_count in a
\* result without any field
C28_NumberKeyDropped ==
    /\ ConversionDone
    /\ \E b \in DOMAIN doc :
           /\ KeyedLeafBucket(b)
           /\ ~HasMember(b, "key_as_string")
           /\ KeptKey(b) = None
           /\ \E r \in Flattened : DocOf(b) \in Range(r.values) /\ r.fields = <<>>

\* What holds: a bucket whose key is a string, or a number with
\* key_as_string, gives that string to the fields of the result it gives its
\* value to
C28_StringKeyKept ==
    ConversionDone =>
        \A b \in DOMAIN doc :
            (KeyedLeafBucket(b) /\ is_some(KeptKey(b))) =>
                \A r \in ResultsOf(b) : unwrap(KeptKey(b)) \in Range(r.fields)

\* ------------------------------------------------------------------------
\* Search queries: a sequence of push calls
\* ------------------------------------------------------------------------

\* The BooleanQuery the calls started from: that of the boolean slot, or one
\* with no clause, no minimum_should_match and no boost if the slot was empty
StartBoolean == IF is_some(start.boolean) THEN unwrap(start.boolean) ELSE DefaultBooleanQuery

\* C29: after the push calls q1..qn on a CompoundQuery, its filter is the
\* filter it had before the calls followed by q1..qn in call order, and its
\* must, should, must_not, minimum_should_match and boost are what they were
\* before the calls (empty or absent if the boolean slot was empty).
C29_FilterExtendedRestKept ==
    pushed > 0 =>
        /\ Len(calls) = pushed
        /\ is_some(compound.boolean)
        /\ LET b == unwrap(compound.boolean) IN
           /\ b.filter = StartBoolean.filter \o calls
           /\ b.must = StartBoolean.must
           /\ b.should = StartBoolean.should
           /\ b.must_not = StartBoolean.must_not
           /\ b.minimum_should_match = StartBoolean.minimum_should_match
           /\ b.boost = StartBoolean.boost

\* Two different queries pushed onto a CompoundQuery that had a filter and a
\* should clause
C29_Witness ==
    /\ pushed = 2
    /\ calls[1] /= calls[2]
    /\ is_some(start.boolean)
    /\ Len(unwrap(start.boolean).filter) = 1
    /\ unwrap(start.boolean).should /= <<>>
    /\ Len(unwrap(compound.boolean).filter) = 3
    /\ unwrap(compound.boolean).filter[3] = calls[2]

\* The same onto a CompoundQuery whose boolean slot was empty
C29_WitnessEmptySlot ==
    /\ pushed = 2
    /\ start.boolean = None
    /\ unwrap(compound.boolean).filter = calls
    /\ unwrap(compound.boolean).boost = None

\* ------------------------------------------------------------------------
\* Response keys: names that contain '#'
\* ------------------------------------------------------------------------

\* The text after the first '#' of a key, as it stands
Rest(k) ==
    LET i == CHOOSE j \in Hashes(k) : \A h \in Hashes(k) : j <= h
    IN  SubSeq(k, i + 1, Len(k))

\* The keys with the tag of k and another text after the first '#'
SameTagOtherRest(k) ==
    {o \in KeysUpTo(MaxParts) :
        Hashes(o) /= {} /\ TagOf(o) = TagOf(k) /\ Rest(o) /= Rest(k)}

\* C30, as stated: the name of a key is the text after its first '#',
\* unchanged also when that text contains '#', and two keys with the same
\* tag and different text after the first '#' have different names.
C30_AsStated ==
    (is_some(key_split) /\ Hashes(unwrap(key_input)) /= {}) =>
        LET k == unwrap(key_input) IN
        /\ unwrap(key_split).name = Rest(k)
        /\ \A o \in SameTagOtherRest(k) :
               split_ty_and_name(o).name /= unwrap(key_split).name

\* The key "avg#x#" has been split: its name is "x", which is not the text
\* after the tag and is also the name of the key "avg#x"
C30_HashDropped ==
    /\ key_input = Some(<<"a","v","g","#","x","#">>)
    /\ is_some(key_split)
    /\ unwrap(key_split).name = <<"x">>
    /\ unwrap(key_split).name /= Rest(unwrap(key_input))
    /\ <<"a","v","g","#","x">> \in SameTagOtherRest(unwrap(key_input))
    /\ split_ty_and_name(<<"a","v","g","#","x">>).name = unwrap(key_split).name

\* What holds: the name of a key is the text after its first '#' exactly
\* when that text has no '#'
C30_UnchangedWithoutHash ==
    (is_some(key_split) /\ Hashes(unwrap(key_input)) /= {}) =>
        LET k == unwrap(key_input) IN
        (unwrap(key_split).name = Rest(k)) <=> (Hashes(Rest(k)) = {})

====
